---- MODULE Spec2Model ----
(***************************************************************************)
(* Model of the providers of any-llm-go. Gemini: the streaming producer of *)
(* Provider.CompletionStream with its stream state, alone and as two       *)
(* concurrent calls, the error classifier Provider.ConvertError, and the   *)
(* converters of messages, tools, responses, finish reasons and model      *)
(* lists. DeepSeek: preprocessParams. Mistral: patchMessages. Anthropic:   *)
(* applyThinking, the stream state and convertStopReason.                  *)
(*                                                                         *)
(* In the stream and the error classifier strings are sequences of         *)
(* one-character strings, so that concatenation, lower-casing and          *)
(* substring search are computed as the code computes them.                *)
(***************************************************************************)
EXTENDS Integers, Sequences, FiniteSets, TLC

\* ---------------------------------------------------------------- bounds
\* Largest number of native events one stream yields before it ends.
MaxEvents == 3
\* Largest number of links in a native error chain (errors.Unwrap depth).
MaxChain == 2
\* Largest number of words an API error message is built from.
MaxWords == 2
\* Longest conversation given to convertMessages.
MaxMessages == 3
\* Longest tool list given to convertTools.
MaxTools == 3
\* Most pages the model service has.
MaxPages == 3
\* Most handler calls on one Anthropic stream, and most tool calls started.
MaxHandlerCalls == 4
MaxToolCalls == 2
\* Longest conversation given to Mistral preprocessParams, and most times it
\* is applied in a row.
MaxPatchMessages == 4
MaxPatchCalls == 2
\* Largest number of native events each of two concurrent streams yields.
MaxConcEvents == 2

\* An optional value (a pointer, an error, a map) is a sequence: Nil when
\* absent, Some(v) when present.
Nil == <<>>
Some(v) == <<v>>
Get(o) == o[1]

\* ------------------------------------------------------- string helpers
UpperChars == <<"A","B","C","D","E","F","G","H","I","J","K","L","M",
                "N","O","P","Q","R","S","T","U","V","W","X","Y","Z">>
LowerChars == <<"a","b","c","d","e","f","g","h","i","j","k","l","m",
                "n","o","p","q","r","s","t","u","v","w","x","y","z">>

\* strings.ToLower on one character.
ToLowerChar(c) ==
    IF \E i \in 1..Len(UpperChars) : UpperChars[i] = c
    THEN LowerChars[CHOOSE i \in 1..Len(UpperChars) : UpperChars[i] = c]
    ELSE c

\* strings.ToLower that leaves the case of every character as it is.
ToLowerKeepCase(s) == s

\* strings.ToLower
ToLower(s) == [i \in 1..Len(s) |-> ToLowerChar(s[i])]

\* strings.Contains
Contains(s, sub) ==
    \E i \in 0..(Len(s) - Len(sub)) : SubSeq(s, i + 1, i + Len(sub)) = sub

\* --------------------------------------------------- program constants
providerName == "gemini"
errMsgContext == <<"c","o","n","t","e","x","t">>
errMsgToken == <<"t","o","k","e","n">>
errMsgSafety == <<"s","a","f","e","t","y">>
errMsgBlock == <<"b","l","o","c","k">>

\* providers.FinishReason* (the canonical enumeration)
FinishReasonStop == "stop"
FinishReasonLength == "length"
FinishReasonToolCalls == "tool_calls"
FinishReasonContentFilter == "content_filter"

\* ------------------------------------------------------ error classifier
\* A Go error is its chain of links (errors.Unwrap), Nil for the nil error.
\* A link is a *genai.APIError (api = TRUE) with Code and Message, a
\* canonical error of the errors package (Kind is its sentinel, Provider the
\* provider it names), or any other error (a message only).
PlainLink(msg) == [api |-> FALSE, Code |-> 0, Message |-> msg, Kind |-> "", Provider |-> ""]
APILink(code, msg) == [api |-> TRUE, Code |-> code, Message |-> msg, Kind |-> "", Provider |-> ""]
CanonicalLink(kind, p) == [api |-> FALSE, Code |-> 0, Message |-> <<>>, Kind |-> kind, Provider |-> p]

\* The canonical error constructors of the errors package: each wraps the
\* native error and records the provider name.
NewProviderErrorUnnamed(p, err) == <<CanonicalLink("ErrProvider", "")>> \o err
NewProviderError(p, err) == <<CanonicalLink("ErrProvider", p)>> \o err
NewAuthenticationError(p, err) == <<CanonicalLink("ErrAuthentication", p)>> \o err
NewModelNotFoundError(p, err) == <<CanonicalLink("ErrModelNotFound", p)>> \o err
NewRateLimitError(p, err) == <<CanonicalLink("ErrRateLimit", p)>> \o err
NewContextLengthError(p, err) == <<CanonicalLink("ErrContextLength", p)>> \o err
NewContentFilterError(p, err) == <<CanonicalLink("ErrContentFilter", p)>> \o err
NewInvalidRequestError(p, err) == <<CanonicalLink("ErrInvalidRequest", p)>> \o err

\* The sentinel a canonical error matches under errors.Is ("" when none).
KindOf(err) == IF err = Nil THEN "" ELSE err[1].Kind

\* errors.As(err, &apiErr): TRUE when some link of the chain is an APIError.
IsAPIError(err) == \E i \in 1..Len(err) : err[i].api

\* The link errors.As binds: the first APIError of the chain.
AsAPIError(err) == err[CHOOSE i \in 1..Len(err) :
                         err[i].api /\ \A j \in 1..(i - 1) : ~err[j].api]

\* ClassifyAPIError with the message matched before the status code.
ClassifyAPIErrorMessageFirst(apiErr, err) ==
    LET msg == ToLower(apiErr.Message) IN
    IF Contains(msg, errMsgContext) \/ Contains(msg, errMsgToken)
    THEN NewContextLengthError(providerName, err)
    ELSE IF Contains(msg, errMsgSafety) \/ Contains(msg, errMsgBlock)
    THEN NewContentFilterError(providerName, err)
    ELSE CASE apiErr.Code \in {401, 403} -> NewAuthenticationError(providerName, err)
           [] apiErr.Code = 404 -> NewModelNotFoundError(providerName, err)
           [] apiErr.Code = 429 -> NewRateLimitError(providerName, err)
           [] apiErr.Code = 400 -> NewInvalidRequestError(providerName, err)
           [] OTHER -> NewProviderError(providerName, err)

\* ClassifyAPIError testing 'safety' and 'block' before 'context' and 'token'.
ClassifyAPIErrorFilterFirst(apiErr, err) ==
    CASE apiErr.Code \in {401, 403} -> NewAuthenticationError(providerName, err)
      [] apiErr.Code = 404 -> NewModelNotFoundError(providerName, err)
      [] apiErr.Code = 429 -> NewRateLimitError(providerName, err)
      [] apiErr.Code = 400 ->
            LET msg == ToLower(apiErr.Message) IN
            IF Contains(msg, errMsgSafety) \/ Contains(msg, errMsgBlock)
            THEN NewContentFilterError(providerName, err)
            ELSE IF Contains(msg, errMsgContext) \/ Contains(msg, errMsgToken)
                 THEN NewContextLengthError(providerName, err)
                 ELSE NewInvalidRequestError(providerName, err)
      [] OTHER -> NewProviderError(providerName, err)

\* The switch of ConvertError on apiErr.Code.
ClassifyAPIError(apiErr, err) ==
    CASE apiErr.Code \in {401, 403} -> NewAuthenticationError(providerName, err)
      [] apiErr.Code = 404 -> NewModelNotFoundError(providerName, err)
      [] apiErr.Code = 429 -> NewRateLimitError(providerName, err)
      [] apiErr.Code = 400 ->
            LET msg == ToLower(apiErr.Message) IN
            IF Contains(msg, errMsgContext) \/ Contains(msg, errMsgToken)
            THEN NewContextLengthError(providerName, err)
            ELSE IF Contains(msg, errMsgSafety) \/ Contains(msg, errMsgBlock)
                 THEN NewContentFilterError(providerName, err)
                 ELSE NewInvalidRequestError(providerName, err)
      [] OTHER -> NewProviderError(providerName, err)

\* ConvertError without the nil check.
ConvertErrorNoNilCheck(err) ==
    IF ~IsAPIError(err) THEN NewProviderError(providerName, err)
    ELSE ClassifyAPIError(AsAPIError(err), err)

\* Provider.ConvertError
ConvertError(err) ==
    IF err = Nil THEN Nil
    ELSE IF ~IsAPIError(err) THEN NewProviderError(providerName, err)
    ELSE ClassifyAPIError(AsAPIError(err), err)

\* ------------------------------------------------------- native events
idPrefixCompletion == "gemini-"
idPrefixToolCall == "call_"
toolCallType == "function"
objectChatCompletionChunk == "chat.completion.chunk"

\* params.Model of the call.
ParamsModel == "gemini-2.5-flash"

\* The errors a failing crypto/rand read makes generateID return.
ErrGeneratingID == <<PlainLink(<<"g","e","n","e","r","a","t","i","n","g"," ","I","D">>)>>

\* The hex suffixes the random source can give to one identifier.
RandomHex == {"0a1b2c3d4e5f60718293a4b5"}

\* generateID: the possible results (id, err) for a prefix.
generateID(prefix) ==
    {[id |-> prefix \o h, err |-> Nil] : h \in RandomHex}
        \cup {[id |-> "", err |-> ErrGeneratingID]}

\* genai.FinishReason values; "" is the unset value, "OTHER" one the
\* converter does not list.
FinishReasonUnset == ""
NativeFinishReasons ==
    {"STOP", "MAX_TOKENS", "SAFETY", "RECITATION", "BLOCKLIST",
     "PROHIBITED_CONTENT", "OTHER", FinishReasonUnset}

\* convertFinishReason handing an unlisted native value through.
convertFinishReasonPassThrough(reason) ==
    CASE reason = "STOP" -> FinishReasonStop
      [] reason = "MAX_TOKENS" -> FinishReasonLength
      [] reason \in {"SAFETY", "BLOCKLIST", "PROHIBITED_CONTENT"} -> FinishReasonContentFilter
      [] reason = "RECITATION" -> FinishReasonStop
      [] OTHER -> reason

\* convertFinishReason
convertFinishReason(reason) ==
    CASE reason = "STOP" -> FinishReasonStop
      [] reason = "MAX_TOKENS" -> FinishReasonLength
      [] reason \in {"SAFETY", "BLOCKLIST", "PROHIBITED_CONTENT"} -> FinishReasonContentFilter
      [] reason = "RECITATION" -> FinishReasonStop
      [] OTHER -> FinishReasonStop

\* genai.Part: FunctionCall (Nil or a call), Thought flag, Text.
TextPart(t) == [FunctionCall |-> Nil, Thought |-> FALSE, Text |-> t]
ThoughtPart(t) == [FunctionCall |-> Nil, Thought |-> TRUE, Text |-> t]
CallPart(name, args) ==
    [FunctionCall |-> Some([Name |-> name, Args |-> args]), Thought |-> FALSE, Text |-> <<>>]

\* genai.GenerateContentResponse with at most one candidate.
Event(usage, cands) == [UsageMetadata |-> usage, Candidates |-> cands]
Candidate(reason, content) == [FinishReason |-> reason, Content |-> content]
Content(parts) == Some([Parts |-> parts])
UsageMeta(p, c, t) ==
    Some([PromptTokenCount |-> p, CandidatesTokenCount |-> c, ThoughtsTokenCount |-> t])

T4 == <<"4">>
TOpen == <<" ", "(">>
TClose == <<")">>
THm == <<"h", "m">>
U1 == UsageMeta(10, 5, 0)
U2 == UsageMeta(20, 7, 3)
\* The arguments map of a call, by its JSON encoding.
WeatherArgs == Some("{\"location\":\"Paris\"}")

\* Events that carry text deltas only.
TextEvents ==
    {Event(Nil, <<Candidate(FinishReasonUnset, Content(<<TextPart(t)>>))>>) :
        t \in {T4, TOpen, TClose}}

\* Events with several parts, and one whose only part has no text.
MixedEvents ==
    {Event(Nil, <<Candidate(FinishReasonUnset, Content(<<ThoughtPart(THm), TextPart(T4)>>))>>),
     Event(Nil, <<Candidate(FinishReasonUnset,
                            Content(<<TextPart(TOpen), CallPart("get_weather", WeatherArgs)>>))>>),
     Event(Nil, <<Candidate(FinishReasonUnset, Content(<<TextPart(<<>>)>>))>>)}

\* A function call that also ends the turn and reports usage.
ToolEvents ==
    {Event(U1, <<Candidate("STOP", Content(<<CallPart("get_weather", Nil)>>))>>)}

\* Events without candidates: usage metadata only.
UsageEvents == {Event(U1, <<>>)}

\* Events whose candidate carries a finish reason and no content.
FinishEvents ==
    {Event(U2, <<Candidate("STOP", Nil)>>)}
        \cup {Event(Nil, <<Candidate(r, Nil)>>) : r \in {"MAX_TOKENS", "SAFETY", "OTHER"}}

\* The native events the SDK iterator can yield in the model.
NativeEvents == TextEvents \cup MixedEvents \cup ToolEvents \cup UsageEvents \cup FinishEvents

\* context.Canceled, as the SDK iterator reports it.
ErrContextCanceled == <<PlainLink(errMsgContext \o <<" ","c","a","n","c","e","l","e","d">>)>>

\* The native errors the SDK iterator can yield in the model.
StreamErrors ==
    {<<PlainLink(<<"E","O","F">>)>>,
     <<APILink(429, errMsgToken)>>,
     <<APILink(400, <<"B","l","o","c","k","e","d">>)>>,
     <<APILink(503, <<>>)>>}

\* ----------------------------------------------------------- stream state
\* int32 addition with wrap-around, as PromptTokenCount + CandidatesTokenCount.
MaxInt32 == 2147483647
MinInt32 == (-MaxInt32) - 1
AddInt32(a, b) ==
    IF b > 0 /\ a > MaxInt32 - b THEN (a - MaxInt32 - 1) + (b - MaxInt32 - 1)
    ELSE IF b < 0 /\ a < MinInt32 - b THEN (a + MaxInt32 + 1) + (b + MaxInt32 + 1)
    ELSE a + b

\* newStreamState, given the identifier generateID produced.
newStreamState(model, id) ==
    [content |-> <<>>, finishReason |-> FinishReasonUnset, messageID |-> id,
     model |-> model, reasoning |-> <<>>, toolCalls |-> <<>>, usage |-> Nil]

EmptyDelta == [Content |-> <<>>, Reasoning |-> Nil, ToolCalls |-> <<>>]

\* streamState.chunk
chunk(s, delta) ==
    [ID |-> s.messageID, Object |-> objectChatCompletionChunk, Model |-> s.model,
     Delta |-> delta, FinishReason |-> "", Usage |-> Nil]

\* finalChunk reporting tool_calls whenever a tool call was accumulated.
finalChunkAlwaysToolCalls(s) ==
    LET mapped == convertFinishReason(s.finishReason)
        finishReason == IF Len(s.toolCalls) > 0 THEN FinishReasonToolCalls ELSE mapped
    IN [chunk(s, EmptyDelta) EXCEPT !.FinishReason = finishReason, !.Usage = s.usage]

\* streamState.finalChunk
finalChunk(s) ==
    LET mapped == convertFinishReason(s.finishReason)
        finishReason == IF Len(s.toolCalls) > 0 /\ mapped = FinishReasonStop
                        THEN FinishReasonToolCalls ELSE mapped
    IN [chunk(s, EmptyDelta) EXCEPT !.FinishReason = finishReason, !.Usage = s.usage]

\* convertFunctionCallToToolCall, given the result of its generateID call.
convertFunctionCallToToolCall(fc, gen) ==
    IF gen.err # Nil THEN [toolCall |-> Nil, err |-> gen.err]
    ELSE [toolCall |-> Some([ID |-> gen.id, Type |-> toolCallType,
                             Function |-> [Name |-> fc.Name,
                                           Arguments |-> IF fc.Args = Nil THEN ""
                                                         ELSE Get(fc.Args)]]),
          err |-> Nil]

\* The usage snapshot processResponse builds from usage metadata.
usageOf(um) ==
    Some([PromptTokens |-> um.PromptTokenCount,
          CompletionTokens |-> um.CandidatesTokenCount,
          TotalTokens |-> AddInt32(um.PromptTokenCount, um.CandidatesTokenCount),
          ReasoningTokens |-> um.ThoughtsTokenCount])

\* processParts with thought text written to the content buffer.
RECURSIVE processPartsThoughtAsContent(_, _, _, _, _)
processPartsThoughtAsContent(s, parts, i, result, gens) ==
    IF i > Len(parts) THEN [state |-> s, result |-> result, err |-> Nil]
    ELSE LET part == parts[i] IN
         IF part.FunctionCall # Nil
         THEN LET r == convertFunctionCallToToolCall(Get(part.FunctionCall), Head(gens)) IN
              IF r.err # Nil THEN [state |-> s, result |-> <<>>, err |-> r.err]
              ELSE LET s2 == [s EXCEPT !.toolCalls = Append(@, Get(r.toolCall))] IN
                   processPartsThoughtAsContent(s2, parts, i + 1,
                       Append(result, chunk(s2, [EmptyDelta EXCEPT !.ToolCalls = r.toolCall])),
                       Tail(gens))
         ELSE IF part.Thought
         THEN LET s2 == [s EXCEPT !.content = @ \o part.Text] IN
              processPartsThoughtAsContent(s2, parts, i + 1,
                  Append(result, chunk(s2, [EmptyDelta EXCEPT !.Reasoning = Some(part.Text)])), gens)
         ELSE IF part.Text # <<>>
         THEN LET s2 == [s EXCEPT !.content = @ \o part.Text] IN
              processPartsThoughtAsContent(s2, parts, i + 1,
                  Append(result, chunk(s2, [EmptyDelta EXCEPT !.Content = part.Text])), gens)
         ELSE processPartsThoughtAsContent(s, parts, i + 1, result, gens)

\* The loop of processResponse over candidate.Content.Parts from part i on:
\* s is the state so far, result the chunks so far, gens the generateID
\* results still unused (one per function-call part).
RECURSIVE processParts(_, _, _, _, _)
processParts(s, parts, i, result, gens) ==
    IF i > Len(parts) THEN [state |-> s, result |-> result, err |-> Nil]
    ELSE LET part == parts[i] IN
         IF part.FunctionCall # Nil
         THEN LET r == convertFunctionCallToToolCall(Get(part.FunctionCall), Head(gens)) IN
              IF r.err # Nil THEN [state |-> s, result |-> <<>>, err |-> r.err]
              ELSE LET s2 == [s EXCEPT !.toolCalls = Append(@, Get(r.toolCall))] IN
                   processParts(s2, parts, i + 1,
                       Append(result, chunk(s2, [EmptyDelta EXCEPT !.ToolCalls = r.toolCall])),
                       Tail(gens))
         ELSE IF part.Thought
         THEN LET s2 == [s EXCEPT !.reasoning = @ \o part.Text] IN
              processParts(s2, parts, i + 1,
                  Append(result, chunk(s2, [EmptyDelta EXCEPT !.Reasoning = Some(part.Text)])), gens)
         ELSE IF part.Text # <<>>
         THEN LET s2 == [s EXCEPT !.content = @ \o part.Text] IN
              processParts(s2, parts, i + 1,
                  Append(result, chunk(s2, [EmptyDelta EXCEPT !.Content = part.Text])), gens)
         ELSE processParts(s, parts, i + 1, result, gens)

\* processResponse emitting a chunk for a candidate without content.
processResponseChunkOnFinish(s, resp, gens) ==
    LET s1 == IF resp.UsageMetadata # Nil
              THEN [s EXCEPT !.usage = usageOf(Get(resp.UsageMetadata))] ELSE s
    IN IF Len(resp.Candidates) = 0 THEN [state |-> s1, result |-> <<>>, err |-> Nil]
       ELSE LET candidate == resp.Candidates[1]
                s2 == IF candidate.FinishReason # FinishReasonUnset
                      THEN [s1 EXCEPT !.finishReason = candidate.FinishReason] ELSE s1
            IN IF candidate.Content = Nil
               THEN [state |-> s2,
                     result |-> IF candidate.FinishReason # FinishReasonUnset
                                THEN <<[chunk(s2, EmptyDelta) EXCEPT
                                           !.FinishReason = convertFinishReason(candidate.FinishReason)]>>
                                ELSE <<>>,
                     err |-> Nil]
               ELSE processParts(s2, Get(candidate.Content).Parts, 1, <<>>, gens)

\* processResponse keeping the first usage snapshot it built.
processResponseKeepsFirstUsage(s, resp, gens) ==
    LET s1 == IF resp.UsageMetadata # Nil /\ s.usage = Nil
              THEN [s EXCEPT !.usage = usageOf(Get(resp.UsageMetadata))] ELSE s
    IN IF Len(resp.Candidates) = 0 THEN [state |-> s1, result |-> <<>>, err |-> Nil]
       ELSE LET candidate == resp.Candidates[1]
                s2 == IF candidate.FinishReason # FinishReasonUnset
                      THEN [s1 EXCEPT !.finishReason = candidate.FinishReason] ELSE s1
            IN IF candidate.Content = Nil THEN [state |-> s2, result |-> <<>>, err |-> Nil]
               ELSE processParts(s2, Get(candidate.Content).Parts, 1, <<>>, gens)

\* streamState.processResponse
processResponse(s, resp, gens) ==
    LET s1 == IF resp.UsageMetadata # Nil
              THEN [s EXCEPT !.usage = usageOf(Get(resp.UsageMetadata))] ELSE s
    IN IF Len(resp.Candidates) = 0 THEN [state |-> s1, result |-> <<>>, err |-> Nil]
       ELSE LET candidate == resp.Candidates[1]
                s2 == IF candidate.FinishReason # FinishReasonUnset
                      THEN [s1 EXCEPT !.finishReason = candidate.FinishReason] ELSE s1
            IN IF candidate.Content = Nil THEN [state |-> s2, result |-> <<>>, err |-> Nil]
               ELSE processParts(s2, Get(candidate.Content).Parts, 1, <<>>, gens)

\* Number of function-call parts of an event: the generateID calls it makes.
NumCalls(resp) ==
    IF Len(resp.Candidates) = 0 \/ resp.Candidates[1].Content = Nil THEN 0
    ELSE LET parts == Get(resp.Candidates[1].Content).Parts IN
         Cardinality({i \in 1..Len(parts) : parts[i].FunctionCall # Nil})

\* ------------------------------------------------- inputs of ConvertError
\* Words API error messages are built from, in mixed case.
MessageWords ==
    {errMsgContext, <<"T","o","k","e","n","s">>, <<"S","A","F","E","T","Y">>,
     <<"B","l","o","c","k","e","d">>, <<"b","a","d">>, <<"c","o","n","t","e","n","t">>}

\* The messages of at most n words, joined by spaces.
RECURSIVE Messages(_)
Messages(n) ==
    IF n = 0 THEN {<<>>}
    ELSE Messages(n - 1)
            \cup {IF m = <<>> THEN w ELSE m \o <<" ">> \o w :
                    m \in Messages(n - 1), w \in MessageWords}

\* The status codes of API errors in the model.
StatusCodes == {0, 200, 400, 401, 402, 403, 404, 429, 499, 500, 503}

\* err wrapped n times by errors that are not API errors (fmt.Errorf("%w")).
RECURSIVE Wrap(_, _)
Wrap(err, n) == IF n = 0 THEN err ELSE <<PlainLink(<<"w","r","a","p">>)>> \o Wrap(err, n - 1)

\* The errors ConvertError is applied to: nil, errors without an API error
\* in their chain, and API errors, bare or wrapped.
ErrInputs ==
    {Nil}
        \cup {Wrap(<<PlainLink(m)>>, n) : m \in Messages(1), n \in 0..(MaxChain - 1)}
        \cup {Wrap(<<APILink(c, m)>>, n) :
                c \in StatusCodes, m \in Messages(MaxWords), n \in 0..(MaxChain - 1)}

\* ------------------------------------------------------ convertMessages
RoleSystem == "system"
RoleUser == "user"
RoleAssistant == "assistant"
RoleTool == "tool"
roleModel == "model"
roleUser == "user"
contentPartTypeText == "text"
contentPartTypeImageURL == "image_url"
toolCallFallbackName == "function"

\* providers.Message: Content is a string, or Parts is non-empty when the
\* message is multimodal.
Message(role, content) ==
    [Role |-> role, Content |-> content, Parts |-> <<>>, ToolCalls |-> <<>>,
     Name |-> "", Reasoning |-> Nil, ToolCallID |-> ""]
MultiModalMessage(role, parts) ==
    [Role |-> role, Content |-> "", Parts |-> parts, ToolCalls |-> <<>>,
     Name |-> "", Reasoning |-> Nil, ToolCallID |-> ""]
ContentPart(type, text) == [Type |-> type, Text |-> text]

\* Message.IsMultiModal and Message.ContentString (the latter is applied to
\* string content only).
IsMultiModal(msg) == msg.Parts # <<>>
ContentString(msg) == msg.Content

\* A native part and a native content.
NativePart(kind, value) == [kind |-> kind, value |-> value]
NativeContent(role, parts) == [Role |-> role, Parts |-> parts]

\* strings.Join(parts, sep)
RECURSIVE Join(_, _)
Join(parts, sep) ==
    IF parts = <<>> THEN ""
    ELSE IF Len(parts) = 1 THEN parts[1]
    ELSE parts[1] \o sep \o Join(Tail(parts), sep)

\* The loop of convertUserMessage over the content parts.
RECURSIVE convertUserParts(_)
convertUserParts(parts) ==
    IF parts = <<>> THEN <<>>
    ELSE LET p == Head(parts) IN
         (CASE p.Type = contentPartTypeText -> <<NativePart("text", p.Text)>>
            [] p.Type = contentPartTypeImageURL -> <<NativePart("image", p.Text)>>
            [] OTHER -> <<>>)
            \o convertUserParts(Tail(parts))

convertUserMessage(msg) ==
    IF ~IsMultiModal(msg)
    THEN Some(NativeContent(roleUser, <<NativePart("text", ContentString(msg))>>))
    ELSE Some(NativeContent(roleUser, convertUserParts(msg.Parts)))

convertAssistantMessage(msg) ==
    LET text == ContentString(msg)
        parts == (IF text # "" THEN <<NativePart("text", text)>> ELSE <<>>)
                    \o [i \in 1..Len(msg.ToolCalls) |->
                            NativePart("functionCall", msg.ToolCalls[i])]
    IN IF parts = <<>> THEN Nil ELSE Some(NativeContent(roleModel, parts))

\* The tool results that parse as a JSON object (json.Unmarshal succeeds).
JSONObjectTexts == {"{\"temp\":22}"}

\* convertToolMessage: content that is not a JSON object is wrapped as
\* {"result": content}.
convertToolMessage(msg) ==
    LET name == IF msg.Name = "" THEN toolCallFallbackName ELSE msg.Name
        content == ContentString(msg)
        response == [wrapped |-> content \notin JSONObjectTexts, text |-> content]
    IN Some(NativeContent(roleUser,
            <<NativePart("functionResponse", [name |-> name, response |-> response])>>))

\* convertMessage: nil for a role it does not know.
convertMessage(msg) ==
    CASE msg.Role = RoleUser -> convertUserMessage(msg)
      [] msg.Role = RoleAssistant -> convertAssistantMessage(msg)
      [] msg.Role = RoleTool -> convertToolMessage(msg)
      [] OTHER -> Nil

\* The loop of convertMessages: contents and systemParts after the messages
\* from index i on.
RECURSIVE convertMessagesLoop(_, _, _, _)
convertMessagesLoop(messages, i, contents, systemParts) ==
    IF i > Len(messages) THEN [contents |-> contents, systemParts |-> systemParts]
    ELSE LET msg == messages[i] IN
         IF msg.Role = RoleSystem
         THEN convertMessagesLoop(messages, i + 1, contents,
                                  Append(systemParts, ContentString(msg)))
         ELSE convertMessagesLoop(messages, i + 1,
                                  contents \o convertMessage(msg), systemParts)

\* convertMessages keeping only the last system message.
convertMessagesLastSystemWins(messages) ==
    LET r == convertMessagesLoop(messages, 1, <<>>, <<>>) IN
    [contents |-> r.contents,
     systemInstruction |->
        IF Len(r.systemParts) > 0
        THEN Some(NativeContent(roleUser,
                <<NativePart("text", r.systemParts[Len(r.systemParts)])>>))
        ELSE Nil]

\* convertMessages
convertMessages(messages) ==
    LET r == convertMessagesLoop(messages, 1, <<>>, <<>>) IN
    [contents |-> r.contents,
     systemInstruction |->
        IF Len(r.systemParts) > 0
        THEN Some(NativeContent(roleUser,
                <<NativePart("text", Join(r.systemParts, "\n"))>>))
        ELSE Nil]

\* The messages conversations are built from.
SysFirst == Message(RoleSystem, "First part.")
SysSecond == Message(RoleSystem, "Second part.")
UserHello == Message(RoleUser, "Hello")
UserImage ==
    MultiModalMessage(RoleUser,
        <<ContentPart(contentPartTypeText, "What is this?"),
          ContentPart(contentPartTypeImageURL, "https://example.com/a.jpg")>>)
AssistantHi == Message(RoleAssistant, "Hi there!")
AssistantEmpty == Message(RoleAssistant, "")
ToolResult == [Message(RoleTool, "22C") EXCEPT !.ToolCallID = "call_1"]
DeveloperNote == Message("developer", "note")

MessageAlphabet ==
    {SysFirst, SysSecond, UserHello, UserImage, AssistantHi, AssistantEmpty,
     ToolResult, DeveloperNote}

\* The conversations of at most n messages.
RECURSIVE Conversations(_)
Conversations(n) ==
    IF n = 0 THEN {<<>>}
    ELSE Conversations(n - 1)
            \cup {Append(c, m) : c \in Conversations(n - 1), m \in MessageAlphabet}

\* --------------------------------------------------------- convertTools
\* A JSON value of a tool's parameter schema: a string, a number, or a list.
JSONString(v) == [t |-> "string", v |-> v, items |-> <<>>]
JSONNumber(v) == [t |-> "number", v |-> v, items |-> <<>>]
JSONList(items) == [t |-> "list", v |-> "", items |-> items]

\* The parameter schema of a tool: the value of its "required" key, if any.
Schema(required) == Some([type |-> "object", required |-> required])

\* providers.Tool
Tool(name, description, parameters) ==
    [Type |-> toolCallType,
     Function |-> [Name |-> name, Description |-> description, Parameters |-> parameters]]

\* The loop of convertTools: one declaration per tool, the parameter schema
\* passed on as it is.
RECURSIVE convertToolsLoop(_, _, _)
convertToolsLoop(tools, i, declarations) ==
    IF i > Len(tools) THEN declarations
    ELSE LET tool == tools[i]
             decl == [Name |-> tool.Function.Name,
                      Description |-> tool.Function.Description,
                      ParametersJsonSchema |-> tool.Function.Parameters]
         IN convertToolsLoop(tools, i + 1, Append(declarations, decl))

\* convertTools: it has no error result.
convertTools(tools) ==
    <<[FunctionDeclarations |-> convertToolsLoop(tools, 1, <<>>)]>>

\* The tools requests are built from.
WeatherTool ==
    Tool("get_weather", "Get the weather for a location.",
         Schema(Some(JSONList(<<JSONString("location")>>))))
DateTool == Tool("get_current_date", "Get the date.", Nil)
OptionalParamsTool == Tool("optional_params", "A tool with optional parameters.", Schema(Nil))
EmptyRequiredTool == Tool("no_required", "A tool that requires nothing.", Schema(Some(JSONList(<<>>))))
BadTool == Tool("bad_tool", "A tool with invalid required field.", Schema(Some(JSONNumber("123"))))
MixedRequiredTool ==
    Tool("mixed_required", "A tool with mixed types in required.",
         Schema(Some(JSONList(<<JSONString("valid"), JSONNumber("42"), JSONString("also_valid")>>))))

ToolAlphabet ==
    {WeatherTool, DateTool, OptionalParamsTool, EmptyRequiredTool, BadTool, MixedRequiredTool}

\* The tool lists of at least one and at most n tools (convertParams calls
\* convertTools only for a non-empty list).
RECURSIVE ToolLists(_)
ToolLists(n) ==
    IF n = 1 THEN {<<t>> : t \in ToolAlphabet}
    ELSE ToolLists(n - 1)
            \cup {Append(ts, t) : ts \in ToolLists(n - 1), t \in ToolAlphabet}

\* ------------------------------------------------------ preprocessParams
responseFormatJSONSchema == "json_schema"
responseFormatJSONObject == "json_object"

\* A schema (map[string]any) is what json.MarshalIndent makes of it: the
\* indented text, or nothing when it cannot be serialized.
SchemaObject == [marshal |-> Some("{\n  \"type\": \"object\"\n}")]
SchemaUnserializable == [marshal |-> Nil]

\* providers.ResponseFormat and providers.JSONSchema
ResponseFormat(type, jsonSchema) == [Type |-> type, JSONSchema |-> jsonSchema]
JSONSchema(name, schema) == [Name |-> name, Schema |-> schema]

\* providers.CompletionParams
CompletionParams(messages, format) ==
    [Model |-> "deepseek-chat", Messages |-> messages, Temperature |-> Some("0.7"),
     TopP |-> Nil, MaxTokens |-> Some(100), Stop |-> <<"END">>, Stream |-> FALSE,
     StreamOptions |-> Nil, Tools |-> <<"get_weather">>, ToolChoice |-> Some("auto"),
     ParallelToolCalls |-> Some(TRUE), ResponseFormat |-> format,
     ReasoningEffort |-> "low", Seed |-> Some(7), User |-> "u-1",
     Extra |-> Some("extra")]

\* The search of preprocessMessagesForJSONSchema that skips multimodal user
\* messages; 0 stands for -1.
RECURSIVE lastPlainUserIdx(_, _)
lastPlainUserIdx(messages, i) ==
    IF i = 0 THEN 0
    ELSE IF messages[i].Role = RoleUser /\ ~IsMultiModal(messages[i]) THEN i
    ELSE lastPlainUserIdx(messages, i - 1)

\* The search of preprocessMessagesForJSONSchema for the last user message,
\* from index i down; 0 stands for -1.
RECURSIVE lastUserIdx(_, _)
lastUserIdx(messages, i) ==
    IF i = 0 THEN 0
    ELSE IF messages[i].Role = RoleUser THEN i
    ELSE lastUserIdx(messages, i - 1)

\* The content fmt.Sprintf builds from the schema text and the original text;
\* [fence] stands for the three backquotes of a code fence.
modifiedContent(schemaJSON, originalContent) ==
    "Please respond with a JSON object that matches the following schema:\n\n"
        \o schemaJSON
        \o "\n\nReturn the JSON object only, no other text, do not wrap it in [fence]json or [fence].\n\n"
        \o originalContent

preprocessMessagesForJSONSchema(messages, schema) ==
    IF Len(messages) = 0 THEN [messages |-> messages, ok |-> FALSE]
    ELSE LET idx == lastUserIdx(messages, Len(messages)) IN
         IF idx = 0 THEN [messages |-> messages, ok |-> FALSE]
         ELSE LET targetMsg == messages[idx] IN
              IF IsMultiModal(targetMsg) THEN [messages |-> messages, ok |-> FALSE]
              ELSE IF schema.marshal = Nil THEN [messages |-> messages, ok |-> FALSE]
              ELSE [messages |->
                        [messages EXCEPT ![idx] =
                            [Content |-> modifiedContent(Get(schema.marshal),
                                                         ContentString(targetMsg)),
                             Parts |-> <<>>,
                             Name |-> targetMsg.Name,
                             Reasoning |-> targetMsg.Reasoning,
                             Role |-> targetMsg.Role,
                             ToolCallID |-> targetMsg.ToolCallID,
                             ToolCalls |-> targetMsg.ToolCalls]],
                    ok |-> TRUE]

\* preprocessParams that does not copy the seed into the new request.
preprocessParamsDropsSeed(params) ==
    IF params.ResponseFormat = Nil THEN params
    ELSE IF Get(params.ResponseFormat).Type # responseFormatJSONSchema THEN params
    ELSE IF Get(params.ResponseFormat).JSONSchema = Nil THEN params
    ELSE LET r == preprocessMessagesForJSONSchema(
                    params.Messages, Get(Get(params.ResponseFormat).JSONSchema).Schema)
         IN IF ~r.ok THEN params
            ELSE [params EXCEPT !.Messages = r.messages,
                                !.ResponseFormat = Some(ResponseFormat(responseFormatJSONObject, Nil)),
                                !.Seed = Nil]

preprocessParams(params) ==
    IF params.ResponseFormat = Nil THEN params
    ELSE IF Get(params.ResponseFormat).Type # responseFormatJSONSchema THEN params
    ELSE IF Get(params.ResponseFormat).JSONSchema = Nil THEN params
    ELSE LET r == preprocessMessagesForJSONSchema(
                    params.Messages, Get(Get(params.ResponseFormat).JSONSchema).Schema)
         IN IF ~r.ok THEN params
            ELSE [Model |-> params.Model,
                  Messages |-> r.messages,
                  Temperature |-> params.Temperature,
                  TopP |-> params.TopP,
                  MaxTokens |-> params.MaxTokens,
                  Stop |-> params.Stop,
                  Stream |-> params.Stream,
                  StreamOptions |-> params.StreamOptions,
                  Tools |-> params.Tools,
                  ToolChoice |-> params.ToolChoice,
                  ParallelToolCalls |-> params.ParallelToolCalls,
                  ResponseFormat |-> Some(ResponseFormat(responseFormatJSONObject, Nil)),
                  ReasoningEffort |-> params.ReasoningEffort,
                  Seed |-> params.Seed,
                  User |-> params.User,
                  Extra |-> params.Extra]

\* The messages and response formats degradation is applied to.
SysHelpful == Message(RoleSystem, "You are helpful.")
UserQuestion ==
    [Message(RoleUser, "What is 2+2?") EXCEPT
        !.Name = "ann", !.Reasoning = Some([Content |-> "thinking..."]),
        !.ToolCallID = "call_9", !.ToolCalls = <<"get_weather">>]

SchemaMessageAlphabet ==
    {SysHelpful, UserHello, UserQuestion, UserImage, AssistantHi, ToolResult}

RECURSIVE SchemaConversations(_)
SchemaConversations(n) ==
    IF n = 0 THEN {<<>>}
    ELSE SchemaConversations(n - 1)
            \cup {Append(c, m) : c \in SchemaConversations(n - 1),
                                 m \in SchemaMessageAlphabet}

ResponseFormats ==
    {Nil,
     Some(ResponseFormat(responseFormatJSONObject, Nil)),
     Some(ResponseFormat(responseFormatJSONSchema, Nil)),
     Some(ResponseFormat(responseFormatJSONSchema, Some(JSONSchema("test", SchemaObject)))),
     Some(ResponseFormat(responseFormatJSONSchema,
                         Some(JSONSchema("test", SchemaUnserializable))))}

\* ------------------------------------------- applyThinking (Anthropic)
ReasoningEffortNone == "none"
ReasoningEffortLow == "low"
ReasoningEffortMedium == "medium"
ReasoningEffortHigh == "high"

\* The Anthropic tier table and the factor between a budget and the least
\* max output tokens that goes with it.
anthropicThinkingBudgetLow == 1024
anthropicThinkingBudgetMedium == 4096
anthropicThinkingBudgetHigh == 16384
anthropicThinkingBudgetMultiplier == 2

\* thinkingBudget of the Anthropic provider: the budget and whether the
\* effort has one.
anthropicThinkingBudget(effort) ==
    CASE effort = ReasoningEffortLow -> [budget |-> anthropicThinkingBudgetLow, ok |-> TRUE]
      [] effort = ReasoningEffortMedium -> [budget |-> anthropicThinkingBudgetMedium, ok |-> TRUE]
      [] effort = ReasoningEffortHigh -> [budget |-> anthropicThinkingBudgetHigh, ok |-> TRUE]
      [] OTHER -> [budget |-> 0, ok |-> FALSE]

\* applyThinking that takes the budget itself as the floor.
anthropicApplyThinkingFloorIsBudget(req, effort, maxTokens) ==
    IF effort = "" \/ effort = ReasoningEffortNone THEN req
    ELSE LET b == anthropicThinkingBudget(effort) IN
         IF ~b.ok THEN req
         ELSE [req EXCEPT !.MaxTokens = IF maxTokens < b.budget THEN b.budget ELSE @,
                          !.Thinking = Some([BudgetTokens |-> b.budget])]

\* applyThinking of the Anthropic provider on the request being built.
anthropicApplyThinking(req, effort, maxTokens) ==
    IF effort = "" \/ effort = ReasoningEffortNone THEN req
    ELSE LET b == anthropicThinkingBudget(effort)
             minTokens == b.budget * anthropicThinkingBudgetMultiplier
         IN IF ~b.ok THEN req
            ELSE [req EXCEPT !.MaxTokens = IF maxTokens < minTokens THEN minTokens ELSE @,
                             !.Thinking = Some([BudgetTokens |-> b.budget])]

\* The efforts and max output tokens applyThinking is applied to.
Efforts ==
    {"", ReasoningEffortNone, ReasoningEffortLow, ReasoningEffortMedium,
     ReasoningEffortHigh, "invalid"}
MaxTokensValues ==
    {1, 1000, 1024, 2047, 2048, 2049, 4096, 8191, 8192, 8193, 10000, 16384,
     32767, 32768, 32769, 64000}

\* --------------------------------------------- streamState (Anthropic)
\* newStreamState of the Anthropic provider: no current tool call.
anthropicNewStreamState ==
    [messageID |-> "", model |-> "", toolCalls |-> <<>>, currentToolIdx |-> -1]

\* providers.ToolCall
ToolCall(id, name, arguments) ==
    [ID |-> id, Type |-> toolCallType, Function |-> [Name |-> name, Arguments |-> arguments]]

\* The chunk a handler emits for a tool call.
anthropicToolCallChunk(s, tc) ==
    [ID |-> s.messageID, Model |-> s.model, Object |-> objectChatCompletionChunk,
     Delta |-> [ToolCalls |-> <<tc>>]]

\* Tool-call start: a new call with empty arguments becomes the current one
\* (currentToolIdx counts from 0).
anthropicToolCallStart(s, id, name) ==
    LET tc == ToolCall(id, name, "")
        t == [s EXCEPT !.toolCalls = Append(@, tc), !.currentToolIdx = Len(s.toolCalls)]
    IN [state |-> t, chunk |-> Some(anthropicToolCallChunk(t, tc)), err |-> Nil]

\* handleInputJSONDelta that emits a chunk also when there is no current call.
handleInputJSONDeltaAlwaysChunk(s, partialJSON) ==
    IF s.currentToolIdx < 0 \/ s.currentToolIdx >= Len(s.toolCalls)
    THEN [state |-> s, chunk |-> Some(anthropicToolCallChunk(s, ToolCall("", "", partialJSON))),
          err |-> Nil]
    ELSE LET i == s.currentToolIdx + 1
             t == [s EXCEPT !.toolCalls[i].Function.Arguments = @ \o partialJSON]
         IN [state |-> t, chunk |-> Some(anthropicToolCallChunk(t, t.toolCalls[i])),
             err |-> Nil]

\* streamState.handleInputJSONDelta of the Anthropic provider.
handleInputJSONDelta(s, partialJSON) ==
    IF s.currentToolIdx < 0 \/ s.currentToolIdx >= Len(s.toolCalls)
    THEN [state |-> s, chunk |-> Nil, err |-> Nil]
    ELSE LET i == s.currentToolIdx + 1
             t == [s EXCEPT !.toolCalls[i].Function.Arguments = @ \o partialJSON]
         IN [state |-> t, chunk |-> Some(anthropicToolCallChunk(t, t.toolCalls[i])),
             err |-> Nil]

\* The states the handlers start from: a fresh state with the message
\* started, and a state whose current index points past its only call.
AnthropicStarted ==
    [anthropicNewStreamState EXCEPT !.messageID = "msg_123", !.model = "claude-3"]
AnthropicOutOfBounds ==
    [AnthropicStarted EXCEPT
        !.currentToolIdx = 5,
        !.toolCalls = <<ToolCall("call_1", "get_weather", "")>>]

\* The argument fragments and the calls that start.
ArgumentFragments == {"{\"location\":", "\"Paris\"}", "{}"}
StartedCalls == {<<"toolu_1", "get_weather">>, <<"toolu_2", "get_time">>}

\* ------------------------------------------------------ convertResponse
objectChatCompletion == "chat.completion"

\* The loop of extractResponseContent over candidate.Content.Parts from part
\* i on; gens are the generateID results still unused.
RECURSIVE extractParts(_, _, _, _, _, _)
extractParts(parts, i, content, reasoning, toolCalls, gens) ==
    IF i > Len(parts)
    THEN [content |-> content, reasoning |-> reasoning, toolCalls |-> toolCalls, err |-> Nil]
    ELSE LET part == parts[i] IN
         IF part.FunctionCall # Nil
         THEN LET r == convertFunctionCallToToolCall(Get(part.FunctionCall), Head(gens)) IN
              IF r.err # Nil
              THEN [content |-> <<>>, reasoning |-> <<>>, toolCalls |-> <<>>, err |-> r.err]
              ELSE extractParts(parts, i + 1, content, reasoning,
                                Append(toolCalls, Get(r.toolCall)), Tail(gens))
         ELSE IF part.Thought
         THEN extractParts(parts, i + 1, content, reasoning \o part.Text, toolCalls, gens)
         ELSE IF part.Text # <<>>
         THEN extractParts(parts, i + 1, content \o part.Text, reasoning, toolCalls, gens)
         ELSE extractParts(parts, i + 1, content, reasoning, toolCalls, gens)

\* extractResponseContent
extractResponseContent(resp, gens) ==
    IF Len(resp.Candidates) = 0
    THEN [content |-> <<>>, reasoning |-> Nil, toolCalls |-> <<>>, finishReason |-> "",
          err |-> Nil]
    ELSE LET candidate == resp.Candidates[1]
             finishReason == convertFinishReason(candidate.FinishReason)
         IN IF candidate.Content = Nil
            THEN [content |-> <<>>, reasoning |-> Nil, toolCalls |-> <<>>,
                  finishReason |-> finishReason, err |-> Nil]
            ELSE LET r == extractParts(Get(candidate.Content).Parts, 1, <<>>, <<>>, <<>>, gens) IN
                 IF r.err # Nil
                 THEN [content |-> <<>>, reasoning |-> Nil, toolCalls |-> <<>>,
                       finishReason |-> "", err |-> r.err]
                 ELSE [content |-> r.content,
                       reasoning |-> IF Len(r.reasoning) > 0
                                     THEN Some([Content |-> r.reasoning]) ELSE Nil,
                       toolCalls |-> r.toolCalls,
                       finishReason |-> finishReason, err |-> Nil]

\* convertResponse without the override of the finish reason.
convertResponseNoOverride(resp, model, gens, idGen, now) ==
    LET x == extractResponseContent(resp, gens) IN
    IF x.err # Nil THEN [completion |-> Nil, err |-> x.err]
    ELSE IF idGen.err # Nil THEN [completion |-> Nil, err |-> idGen.err]
    ELSE [completion |->
            Some([ID |-> idGen.id, Object |-> objectChatCompletion, Created |-> now,
                  Model |-> model,
                  Choices |-> <<[Index |-> 0,
                                 Message |-> [Role |-> RoleAssistant, Content |-> x.content,
                                              ToolCalls |-> x.toolCalls,
                                              Reasoning |-> x.reasoning],
                                 FinishReason |-> x.finishReason]>>,
                  Usage |-> IF resp.UsageMetadata # Nil
                            THEN usageOf(Get(resp.UsageMetadata)) ELSE Nil]),
          err |-> Nil]

\* convertResponse, given the results of its generateID calls and the time.
convertResponse(resp, model, gens, idGen, now) ==
    LET x == extractResponseContent(resp, gens) IN
    IF x.err # Nil THEN [completion |-> Nil, err |-> x.err]
    ELSE LET finishReason ==
                IF Len(x.toolCalls) > 0 /\ x.finishReason = FinishReasonStop
                THEN FinishReasonToolCalls ELSE x.finishReason
         IN IF idGen.err # Nil THEN [completion |-> Nil, err |-> idGen.err]
            ELSE [completion |->
                    Some([ID |-> idGen.id, Object |-> objectChatCompletion, Created |-> now,
                          Model |-> model,
                          Choices |-> <<[Index |-> 0,
                                         Message |-> [Role |-> RoleAssistant,
                                                      Content |-> x.content,
                                                      ToolCalls |-> x.toolCalls,
                                                      Reasoning |-> x.reasoning],
                                         FinishReason |-> finishReason]>>,
                          Usage |-> IF resp.UsageMetadata # Nil
                                    THEN usageOf(Get(resp.UsageMetadata)) ELSE Nil]),
                  err |-> Nil]

\* The native responses convertResponse is applied to.
ResponseContents ==
    {Nil, Content(<<>>), Content(<<TextPart(T4)>>),
     Content(<<ThoughtPart(THm), TextPart(T4)>>),
     Content(<<CallPart("get_weather", WeatherArgs)>>),
     Content(<<TextPart(TOpen), CallPart("get_weather", WeatherArgs)>>),
     Content(<<CallPart("get_weather", WeatherArgs), CallPart("get_time", Nil)>>)}
NativeResponses ==
    {Event(u, <<>>) : u \in {Nil, U1}}
        \cup {Event(u, <<Candidate(r, c)>>) :
                u \in {Nil, U1}, r \in NativeFinishReasons, c \in ResponseContents}

\* time.Now().Unix() of the call.
UnixNow == 1700000000

\* ----------------------------------------------------------- ListModels
objectList == "list"
objectModel == "model"

\* genai.ErrPageDone and errors.Is(err, genai.ErrPageDone).
ErrPageDone == <<PlainLink(<<"n","o"," ","m","o","r","e"," ","p","a","g","e","s">>)>>
IsPageDone(err) == \E i \in 1..Len(err) : err[i] = ErrPageDone[1]

\* The model service: its pages of model names, the fetch that fails (0 for
\* none) with its error, and whether the last page still carries a token.
ModelService(pages, failAt, failure, trailingToken) ==
    [pages |-> pages, failAt |-> failAt, failure |-> failure,
     trailingToken |-> trailingToken]

\* client.Models.List (k = 1) and page.Next (k > 1): the k-th page or an error.
fetchPage(svc, k) ==
    IF svc.failAt = k THEN [page |-> Nil, err |-> svc.failure]
    ELSE IF k > Len(svc.pages) THEN [page |-> Nil, err |-> ErrPageDone]
    ELSE [page |-> Some([Items |-> svc.pages[k],
                         NextPageToken |-> IF k < Len(svc.pages) \/ svc.trailingToken
                                           THEN "next" ELSE ""]),
          err |-> Nil]

\* The inner loop of ListModels: one providers.Model per item.
modelsOf(items) ==
    [i \in 1..Len(items) |-> [ID |-> items[i], Object |-> objectModel, OwnedBy |-> "google"]]

\* The outer loop of ListModels from the k-th page on.
RECURSIVE listModelsLoop(_, _, _, _)
listModelsLoop(svc, k, page, models) ==
    LET models2 == models \o modelsOf(page.Items) IN
    IF page.NextPageToken = "" THEN [response |-> Some([Object |-> objectList, Data |-> models2]),
                                     err |-> Nil]
    ELSE LET r == fetchPage(svc, k + 1) IN
         IF r.err # Nil /\ IsPageDone(r.err)
         THEN [response |-> Some([Object |-> objectList, Data |-> models2]), err |-> Nil]
         ELSE IF r.err # Nil THEN [response |-> Nil, err |-> ConvertError(r.err)]
         ELSE listModelsLoop(svc, k + 1, Get(r.page), models2)

\* ListModels that does not follow the page token.
ListModelsFirstPageOnly(svc) ==
    LET r == fetchPage(svc, 1) IN
    IF r.err # Nil THEN [response |-> Nil, err |-> ConvertError(r.err)]
    ELSE [response |-> Some([Object |-> objectList, Data |-> modelsOf(Get(r.page).Items)]),
          err |-> Nil]

\* Provider.ListModels
ListModels(svc) ==
    LET r == fetchPage(svc, 1) IN
    IF r.err # Nil THEN [response |-> Nil, err |-> ConvertError(r.err)]
    ELSE listModelsLoop(svc, 1, Get(r.page), <<>>)

\* The pages and the failures of the model service.
PageAlphabet ==
    {<<>>, <<"models/gemini-2.5-flash">>, <<"models/gemini-2.5-pro", "models/embedding-001">>}

RECURSIVE PageLists(_)
PageLists(n) ==
    IF n = 1 THEN {<<p>> : p \in PageAlphabet}
    ELSE PageLists(n - 1) \cup {Append(ps, p) : ps \in PageLists(n - 1), p \in PageAlphabet}

FetchFailures ==
    {<<PlainLink(<<"E","O","F">>)>>, <<APILink(429, <<"q","u","o","t","a">>)>>}

ModelServices ==
    {ModelService(ps, 0, Nil, t) : ps \in PageLists(MaxPages), t \in BOOLEAN}
        \cup UNION {{ModelService(ps, k, f, t) : k \in 1..(Len(ps) + 1)} :
                        ps \in PageLists(MaxPages), f \in FetchFailures, t \in BOOLEAN}

\* ------------------------------------------------ patchMessages (Mistral)
assistantOKMessage == "OK"

\* The message patchMessages inserts.
OKMessage == Message(RoleAssistant, assistantOKMessage)

\* messages[i].Role == RoleTool && messages[i+1].Role == RoleUser, for the
\* i-th message of i < len(messages).
toolThenUser(messages, i) ==
    /\ i < Len(messages)
    /\ messages[i].Role = RoleTool
    /\ messages[i + 1].Role = RoleUser

\* The counting loop of patchMessages.
insertions(messages) ==
    Cardinality({i \in 1..(Len(messages) - 1) : toolThenUser(messages, i)})

\* The appending loop of patchMessages from the i-th message on.
RECURSIVE patchLoop(_, _, _)
patchLoop(messages, i, result) ==
    IF i > Len(messages) THEN result
    ELSE LET appended == Append(result, messages[i]) IN
         patchLoop(messages, i + 1,
                   IF toolThenUser(messages, i) THEN Append(appended, OKMessage)
                   ELSE appended)

\* patchMessages that answers every tool message, whatever follows it.
RECURSIVE patchLoopAfterEveryTool(_, _, _)
patchLoopAfterEveryTool(messages, i, result) ==
    IF i > Len(messages) THEN result
    ELSE LET appended == Append(result, messages[i]) IN
         patchLoopAfterEveryTool(messages, i + 1,
                   IF messages[i].Role = RoleTool THEN Append(appended, OKMessage)
                   ELSE appended)

patchMessagesAfterEveryTool(messages) ==
    IF Len(messages) < 2 THEN messages
    ELSE patchLoopAfterEveryTool(messages, 1, <<>>)

\* patchMessages that looks for the pairs among the first two messages only.
patchMessagesFirstPairOnly(messages) ==
    IF Len(messages) < 2 THEN messages
    ELSE IF toolThenUser(messages, 1)
         THEN <<messages[1], OKMessage>> \o Tail(messages)
         ELSE messages

\* patchMessages
patchMessages(messages) ==
    IF Len(messages) < 2 THEN messages
    ELSE IF insertions(messages) = 0 THEN messages
    ELSE patchLoop(messages, 1, <<>>)

\* providers.CompletionParams as Mistral preprocessParams reads and writes it.
MistralParams(messages, effort, user) ==
    [Model |-> "mistral-small-latest", Messages |-> messages,
     ReasoningEffort |-> effort, User |-> user]

\* preprocessParams of the Mistral provider.
mistralPreprocessParams(params) ==
    [params EXCEPT !.Messages = patchMessages(params.Messages),
                   !.ReasoningEffort = "",
                   !.User = ""]

\* The conversations Mistral preprocessParams is given.
ToolSecond == [Message(RoleTool, "sunny") EXCEPT !.ToolCallID = "call_2"]
PatchAlphabet == {SysFirst, UserHello, AssistantHi, OKMessage, ToolResult, ToolSecond}

RECURSIVE PatchConversations(_)
PatchConversations(n) ==
    IF n = 0 THEN {<<>>}
    ELSE PatchConversations(n - 1)
            \cup {Append(c, m) : c \in PatchConversations(n - 1), m \in PatchAlphabet}

MistralInputs ==
    {MistralParams(ms, e, u) : ms \in PatchConversations(MaxPatchMessages),
                               e \in {"", "high"}, u \in {"", "user-123"}}

\* ------------------------------------------ two concurrent streaming calls
\* The two CompletionStream calls and params.Model of each.
Calls == {"first", "second"}
CallModel == [c \in Calls |-> IF c = "first" THEN "gemini-2.5-flash" ELSE "gemini-2.5-pro"]

\* The hex suffixes the random source can give while two calls run.
ConcHex == {"0a1b2c3d4e5f60718293a4b5", "ffeeddccbbaa998877665544"}

\* generateID drawing its suffix from hexes.
generateIDFrom(prefix, hexes) ==
    {[id |-> prefix \o h, err |-> Nil] : h \in hexes}
        \cup {[id |-> "", err |-> ErrGeneratingID]}

\* The native events and the native error of the two calls' iterators.
ConcEvents ==
    {Event(Nil, <<Candidate(FinishReasonUnset, Content(<<TextPart(T4)>>))>>),
     Event(Nil, <<Candidate(FinishReasonUnset,
                            Content(<<TextPart(TOpen), CallPart("get_weather", WeatherArgs)>>))>>),
     Event(U2, <<Candidate("MAX_TOKENS", Nil)>>)}
ConcErrors == {<<PlainLink(<<"E","O","F">>)>>}

\* ------------------------------------------------- finish-reason mapping
\* convertStopReason of the Anthropic provider.
convertStopReason(reason) ==
    CASE reason = "end_turn" -> FinishReasonStop
      [] reason = "max_tokens" -> FinishReasonLength
      [] reason = "tool_use" -> FinishReasonToolCalls
      [] reason = "stop_sequence" -> FinishReasonStop
      [] OTHER -> FinishReasonStop

\* The native values the converters are given: the listed ones, other values
\* of the native enumerations, the unset value, and values in another case.
GeminiReasons ==
    NativeFinishReasons
        \cup {"FINISH_REASON_UNSPECIFIED", "LANGUAGE", "SPII", "MALFORMED_FUNCTION_CALL",
              "IMAGE_SAFETY", "UNEXPECTED_TOOL_CALL", "UNKNOWN", "stop", "max_tokens",
              "Safety", "tool_use"}
AnthropicReasons ==
    {"end_turn", "max_tokens", "tool_use", "stop_sequence", "pause_turn", "refusal",
     "unknown", "", "END_TURN", "Max_Tokens", "STOP", "MAX_TOKENS", "SAFETY"}

\* ------------------------------------------------------------------ state
VARIABLES
    pc,              \* position of the producing goroutine of CompletionStream
    state,           \* its streamState
    responseChunks,  \* chunks of the current event not yet sent
    err,             \* the error the producer is about to send
    errs,            \* the buffer of the error channel (capacity 1)
    chunksClosed,    \* close(chunks) has run
    errsClosed,      \* close(errs) has run
    cancelled,       \* ctx.Done() is closed
    cpc,             \* position of the consumer
    received,        \* chunks the consumer has received, in order
    cerr,            \* what the consumer received from the error channel
    events,          \* history: native events the iterator has yielded
    iterOutcome,     \* history: "open", or how the iterator ended: "end", "error"
    nativeErr,       \* history: the error the iterator yielded
    errsSent,        \* history: every value sent on the error channel
    closeOrder,      \* history: the channels in the order they were closed
    deferred,        \* the goroutine's stack of deferred closes
    errIn,           \* input of a ConvertError call
    errOut,          \* its result
    classified,      \* the ConvertError call has returned
    input,           \* argument of a call of one of the converters
    output,          \* what the call returned
    returned,        \* the call has returned
    astate,          \* the streamState of an Anthropic stream
    alog,            \* history: the handler calls on astate, in order
    streams          \* two concurrent CompletionStream calls: each call's own locals

streamVars ==
    <<pc, state, responseChunks, err, errs, chunksClosed, errsClosed, cancelled,
      cpc, received, cerr, events, iterOutcome, nativeErr, errsSent, closeOrder,
      deferred>>
errVars == <<errIn, errOut, classified>>
convVars == <<input, output, returned>>
anthVars == <<astate, alog>>
concVars == <<streams>>
pureVars == <<errVars, convVars, anthVars, concVars>>
vars == <<streamVars, errVars, convVars, anthVars, concVars>>

\* Capacity of the error channel: make(chan error, 1).
ErrsCap == 1

\* The zero streamState, before newStreamState has run.
ZeroStreamState == newStreamState("", "")

StreamInit ==
    /\ pc = "start"
    /\ state = ZeroStreamState
    /\ responseChunks = <<>>
    /\ err = Nil
    /\ errs = <<>>
    /\ chunksClosed = FALSE
    /\ errsClosed = FALSE
    /\ cancelled = FALSE
    /\ cpc = "body"
    /\ received = <<>>
    /\ cerr = Nil
    /\ events = <<>>
    /\ iterOutcome = "open"
    /\ nativeErr = Nil
    /\ errsSent = <<>>
    /\ closeOrder = <<>>
    /\ deferred = <<>>

ErrInit == errIn = Nil /\ errOut = Nil /\ classified = FALSE

ConvInit == input = Nil /\ output = Nil /\ returned = FALSE

AnthInit == astate = anthropicNewStreamState /\ alog = <<>>

\* Each call before its goroutine runs: chunks and errs made, nothing sent.
ConcInit ==
    streams = [c \in Calls |->
                  [pc |-> "start", model |-> CallModel[c], id |-> "",
                   state |-> ZeroStreamState, responseChunks |-> <<>>, err |-> Nil,
                   errs |-> <<>>, closed |-> FALSE, received |-> <<>>,
                   events |-> <<>>, iterOutcome |-> "open"]]

Init == StreamInit /\ ErrInit /\ ConvInit /\ AnthInit /\ ConcInit

\* ------------------------------------------------- CompletionStream producer
\* The defers written in the other order.
DeferOrderErrsFirst == <<"errs", "chunks">>

\* The channels in the order the goroutine defers their close:
\* defer close(chunks), then defer close(errs).
DeferOrder == <<"chunks", "errs">>

\* The goroutine starts: the two defers, convertParams, then newStreamState.
Start ==
    /\ pc = "start"
    /\ deferred' = DeferOrder
    /\ \E gen \in generateID(idPrefixCompletion) :
         IF gen.err # Nil
         THEN /\ err' = gen.err
              /\ pc' = "errSelect"
              /\ UNCHANGED state
         ELSE /\ state' = newStreamState(ParamsModel, gen.id)
              /\ pc' = "iterate"
              /\ UNCHANGED err
    /\ UNCHANGED <<responseChunks, errs, chunksClosed, errsClosed, cancelled, cpc,
                   received, cerr, events, iterOutcome, nativeErr, errsSent, closeOrder>>
    /\ UNCHANGED pureVars

\* The iterator yields a response out of E: processResponse runs on it.
IterEventFrom(E) ==
    /\ pc = "iterate"
    /\ Len(events) < MaxEvents
    /\ \E ev \in E :
       \E gens \in [1..NumCalls(ev) -> generateID(idPrefixToolCall)] :
         LET r == processResponse(state, ev, gens) IN
         /\ events' = Append(events, ev)
         /\ state' = r.state
         /\ IF r.err # Nil
            THEN err' = r.err /\ pc' = "errSelect" /\ UNCHANGED responseChunks
            ELSE /\ responseChunks' = r.result
                 /\ pc' = IF r.result = <<>> THEN "iterate" ELSE "sendSelect"
                 /\ UNCHANGED err
    /\ UNCHANGED <<errs, chunksClosed, errsClosed, cancelled, cpc, received, cerr,
                   iterOutcome, nativeErr, errsSent, closeOrder, deferred>>
    /\ UNCHANGED pureVars

IterEvent == IterEventFrom(NativeEvents)

\* IterError sending the native error as it is.
IterErrorUnclassified ==
    /\ pc = "iterate"
    /\ \E e \in StreamErrors \cup (IF cancelled THEN {ErrContextCanceled} ELSE {}) :
         /\ nativeErr' = e
         /\ err' = e
    /\ iterOutcome' = "error"
    /\ pc' = "errSelect"
    /\ UNCHANGED <<state, responseChunks, errs, chunksClosed, errsClosed, cancelled, cpc,
                   received, cerr, events, errsSent, closeOrder, deferred>>
    /\ UNCHANGED pureVars

\* The iterator yields an error; once the context is cancelled the error can
\* be context.Canceled.
IterError ==
    /\ pc = "iterate"
    /\ \E e \in StreamErrors \cup (IF cancelled THEN {ErrContextCanceled} ELSE {}) :
         /\ nativeErr' = e
         /\ err' = ConvertError(e)
    /\ iterOutcome' = "error"
    /\ pc' = "errSelect"
    /\ UNCHANGED <<state, responseChunks, errs, chunksClosed, errsClosed, cancelled, cpc,
                   received, cerr, events, errsSent, closeOrder, deferred>>
    /\ UNCHANGED pureVars

\* IterEnd skipping the final chunk when no event was seen.
IterEndNoFinalWhenEmpty ==
    /\ pc = "iterate"
    /\ iterOutcome' = "end"
    /\ pc' = IF events = <<>> THEN "return" ELSE "finalSelect"
    /\ UNCHANGED <<state, responseChunks, err, errs, chunksClosed, errsClosed, cancelled,
                   cpc, received, cerr, events, nativeErr, errsSent, closeOrder, deferred>>
    /\ UNCHANGED pureVars

\* The iterator is exhausted: the range loop ends.
IterEnd ==
    /\ pc = "iterate"
    /\ iterOutcome' = "end"
    /\ pc' = "finalSelect"
    /\ UNCHANGED <<state, responseChunks, err, errs, chunksClosed, errsClosed, cancelled,
                   cpc, received, cerr, events, nativeErr, errsSent, closeOrder, deferred>>
    /\ UNCHANGED pureVars

\* SendChunk taking the chunks of an event from the back.
SendChunkLastFirst ==
    /\ pc = "sendSelect"
    /\ cpc = "recv"
    /\ received' = Append(received, responseChunks[Len(responseChunks)])
    /\ responseChunks' = SubSeq(responseChunks, 1, Len(responseChunks) - 1)
    /\ pc' = IF Len(responseChunks) = 1 THEN "iterate" ELSE "sendSelect"
    /\ cpc' = "body"
    /\ UNCHANGED <<state, err, errs, chunksClosed, errsClosed, cancelled, cerr, events,
                   iterOutcome, nativeErr, errsSent, closeOrder, deferred>>
    /\ UNCHANGED pureVars

\* The chunk send on a channel that takes the chunk while nobody receives:
\* the producer goes on and the consumer has not the chunk.
SendChunkWithoutReceiver ==
    /\ pc = "sendSelect"
    /\ responseChunks' = Tail(responseChunks)
    /\ pc' = IF Tail(responseChunks) = <<>> THEN "iterate" ELSE "sendSelect"
    /\ UNCHANGED <<state, err, errs, chunksClosed, errsClosed, cancelled, cpc, received,
                   cerr, events, iterOutcome, nativeErr, errsSent, closeOrder, deferred>>
    /\ UNCHANGED pureVars

\* select: case chunks <- chunk. The channel is unbuffered, so the send
\* happens together with the consumer's receive.
SendChunk ==
    /\ pc = "sendSelect"
    /\ cpc = "recv"
    /\ received' = Append(received, Head(responseChunks))
    /\ responseChunks' = Tail(responseChunks)
    /\ pc' = IF Tail(responseChunks) = <<>> THEN "iterate" ELSE "sendSelect"
    /\ cpc' = "body"
    /\ UNCHANGED <<state, err, errs, chunksClosed, errsClosed, cancelled, cerr, events,
                   iterOutcome, nativeErr, errsSent, closeOrder, deferred>>
    /\ UNCHANGED pureVars

\* The chunk send without a cancellation case: a plain chunks <- chunk.
SendWithoutCancelCase ==
    /\ pc = "sendSelect"
    /\ cancelled
    /\ FALSE
    /\ UNCHANGED vars

\* select: case <-ctx.Done(): return.
SendCancelled ==
    /\ pc = "sendSelect"
    /\ cancelled
    /\ pc' = "return"
    /\ UNCHANGED <<state, responseChunks, err, errs, chunksClosed, errsClosed, cancelled,
                   cpc, received, cerr, events, iterOutcome, nativeErr, errsSent, closeOrder, deferred>>
    /\ UNCHANGED pureVars

\* The error send on a channel without a buffer: it waits for a consumer that
\* is receiving from the error channel.
ErrSendUnbuffered ==
    /\ pc = "errSelect"
    /\ cpc = "recvErr"
    /\ cerr' = err
    /\ cpc' = "done"
    /\ errsSent' = Append(errsSent, err)
    /\ pc' = "return"
    /\ UNCHANGED <<state, responseChunks, err, errs, chunksClosed, errsClosed, cancelled,
                   received, events, iterOutcome, nativeErr, closeOrder, deferred>>
    /\ UNCHANGED pureVars

\* select: case errs <- err, then return.
ErrSend ==
    /\ pc = "errSelect"
    /\ Len(errs) < ErrsCap
    /\ errs' = Append(errs, err)
    /\ errsSent' = Append(errsSent, err)
    /\ pc' = "return"
    /\ UNCHANGED <<state, responseChunks, err, chunksClosed, errsClosed, cancelled, cpc,
                   received, cerr, events, iterOutcome, nativeErr, closeOrder, deferred>>
    /\ UNCHANGED pureVars

\* select: case <-ctx.Done(), then return.
ErrCancelled ==
    /\ pc = "errSelect"
    /\ cancelled
    /\ pc' = "return"
    /\ UNCHANGED <<state, responseChunks, err, errs, chunksClosed, errsClosed, cancelled,
                   cpc, received, cerr, events, iterOutcome, nativeErr, errsSent, closeOrder, deferred>>
    /\ UNCHANGED pureVars

\* select: case chunks <- *finalChunk.
FinalSend ==
    /\ pc = "finalSelect"
    /\ cpc = "recv"
    /\ received' = Append(received, finalChunk(state))
    /\ pc' = "return"
    /\ cpc' = "body"
    /\ UNCHANGED <<state, responseChunks, err, errs, chunksClosed, errsClosed, cancelled,
                   cerr, events, iterOutcome, nativeErr, errsSent, closeOrder, deferred>>
    /\ UNCHANGED pureVars

\* The final select reporting ctx.Err() on cancellation.
FinalCancelledReportsError ==
    /\ pc = "finalSelect"
    /\ cancelled
    /\ err' = ErrContextCanceled
    /\ pc' = "errSelect"
    /\ UNCHANGED <<state, responseChunks, errs, chunksClosed, errsClosed, cancelled,
                   cpc, received, cerr, events, iterOutcome, nativeErr, errsSent, closeOrder,
                   deferred>>
    /\ UNCHANGED pureVars

\* select: case <-ctx.Done().
FinalCancelled ==
    /\ pc = "finalSelect"
    /\ cancelled
    /\ pc' = "return"
    /\ UNCHANGED <<state, responseChunks, err, errs, chunksClosed, errsClosed, cancelled,
                   cpc, received, cerr, events, iterOutcome, nativeErr, errsSent, closeOrder, deferred>>
    /\ UNCHANGED pureVars

\* The deferred calls run in the order they were deferred.
RunDeferredFirstInFirstOut ==
    /\ pc = "return"
    /\ LET ch == Head(deferred) IN
         /\ chunksClosed' = (chunksClosed \/ ch = "chunks")
         /\ errsClosed' = (errsClosed \/ ch = "errs")
         /\ closeOrder' = Append(closeOrder, ch)
    /\ deferred' = Tail(deferred)
    /\ pc' = IF Len(deferred) = 1 THEN "done" ELSE "return"
    /\ UNCHANGED <<state, responseChunks, err, errs, cancelled, cpc, received, cerr,
                   events, iterOutcome, nativeErr, errsSent>>
    /\ UNCHANGED pureVars

\* The goroutine returns: its deferred calls run last-in first-out, each
\* closing its channel.
RunDeferred ==
    /\ pc = "return"
    /\ LET ch == deferred[Len(deferred)] IN
         /\ chunksClosed' = (chunksClosed \/ ch = "chunks")
         /\ errsClosed' = (errsClosed \/ ch = "errs")
         /\ closeOrder' = Append(closeOrder, ch)
    /\ deferred' = SubSeq(deferred, 1, Len(deferred) - 1)
    /\ pc' = IF Len(deferred) = 1 THEN "done" ELSE "return"
    /\ UNCHANGED <<state, responseChunks, err, errs, cancelled, cpc, received, cerr,
                   events, iterOutcome, nativeErr, errsSent>>
    /\ UNCHANGED pureVars

\* ------------------------------------------------------ consumer and caller
\* The consumer finishes the body of its range loop and receives again.
ConsumerLoop ==
    /\ cpc = "body"
    /\ cpc' = "recv"
    /\ UNCHANGED <<pc, state, responseChunks, err, errs, chunksClosed, errsClosed,
                   cancelled, received, cerr, events, iterOutcome, nativeErr, errsSent,
                   closeOrder, deferred>>
    /\ UNCHANGED pureVars

\* for chunk := range chunks ends when the channel is closed.
ConsumerClosed ==
    /\ cpc = "recv"
    /\ chunksClosed
    /\ cpc' = "recvErr"
    /\ UNCHANGED <<pc, state, responseChunks, err, errs, chunksClosed, errsClosed,
                   cancelled, received, cerr, events, iterOutcome, nativeErr, errsSent,
                   closeOrder, deferred>>
    /\ UNCHANGED pureVars

\* err = <-errs: a buffered value, or nil once the channel is closed and empty.
ConsumerRecvErr ==
    /\ cpc = "recvErr"
    /\ errs # <<>> \/ errsClosed
    /\ IF errs # <<>>
       THEN cerr' = Head(errs) /\ errs' = Tail(errs)
       ELSE cerr' = Nil /\ UNCHANGED errs
    /\ cpc' = "done"
    /\ UNCHANGED <<pc, state, responseChunks, err, chunksClosed, errsClosed, cancelled,
                   received, events, iterOutcome, nativeErr, errsSent, closeOrder, deferred>>
    /\ UNCHANGED pureVars

\* The caller cancels the context.
Cancel ==
    /\ ~cancelled
    /\ cancelled' = TRUE
    /\ UNCHANGED <<pc, state, responseChunks, err, errs, chunksClosed, errsClosed, cpc,
                   received, cerr, events, iterOutcome, nativeErr, errsSent, closeOrder, deferred>>
    /\ UNCHANGED pureVars

Next ==
    \/ Start
    \/ IterEvent
    \/ IterError
    \/ IterEnd
    \/ SendChunk
    \/ SendCancelled
    \/ ErrSend
    \/ ErrCancelled
    \/ FinalSend
    \/ FinalCancelled
    \/ RunDeferred
    \/ ConsumerLoop
    \/ ConsumerClosed
    \/ ConsumerRecvErr
    \/ Cancel

Spec == Init /\ [][Next]_vars

\* ------------------------------------------------ the stream under fairness
\* The events of the fair specification: events of zero, one and two chunks.
LiveEvents ==
    {Event(Nil, <<Candidate(FinishReasonUnset, Content(<<TextPart(T4)>>))>>),
     Event(Nil, <<Candidate(FinishReasonUnset,
                            Content(<<TextPart(TOpen), CallPart("get_weather", WeatherArgs)>>))>>),
     Event(U2, <<Candidate("MAX_TOKENS", Nil)>>)}

LiveIterEvent == IterEventFrom(LiveEvents)

LiveNext ==
    \/ Start
    \/ LiveIterEvent
    \/ IterError
    \/ IterEnd
    \/ SendChunk
    \/ SendCancelled
    \/ ErrSend
    \/ ErrCancelled
    \/ FinalSend
    \/ FinalCancelled
    \/ RunDeferred
    \/ ConsumerLoop
    \/ ConsumerClosed
    \/ ConsumerRecvErr
    \/ Cancel

\* The steps the goroutine takes on its own: the scheduler runs it whenever
\* it can move, the iterator eventually yields or ends, and a select with a
\* ready case returns. A hand-off to the consumer is not among them: the
\* consumer may never receive.
ProducerStep ==
    \/ Start
    \/ LiveIterEvent
    \/ IterError
    \/ IterEnd
    \/ SendCancelled
    \/ ErrSend
    \/ ErrCancelled
    \/ FinalCancelled
    \/ RunDeferred

LiveSpec == Init /\ [][LiveNext]_vars /\ WF_vars(ProducerStep)

\* ------------------------------------------- ConvertError as a specification
ErrSpecInit ==
    /\ StreamInit
    /\ ConcInit
    /\ ConvInit
    /\ AnthInit
    /\ errIn \in ErrInputs
    /\ errOut = Nil
    /\ classified = FALSE

\* One call of Provider.ConvertError.
Classify ==
    /\ ~classified
    /\ errOut' = ConvertError(errIn)
    /\ classified' = TRUE
    /\ UNCHANGED errIn
    /\ UNCHANGED <<streamVars, convVars, anthVars, concVars>>

ErrNext == Classify

ErrSpec == ErrSpecInit /\ [][ErrNext]_vars

\* ---------------------------------------- convertMessages as a specification
MsgSpecInit ==
    /\ StreamInit
    /\ ConcInit
    /\ ErrInit
    /\ AnthInit
    /\ input \in Conversations(MaxMessages)
    /\ output = Nil
    /\ returned = FALSE

\* One call of convertMessages.
CallConvertMessages ==
    /\ ~returned
    /\ output' = convertMessages(input)
    /\ returned' = TRUE
    /\ UNCHANGED input
    /\ UNCHANGED <<streamVars, errVars, anthVars, concVars>>

MsgNext == CallConvertMessages

MsgSpec == MsgSpecInit /\ [][MsgNext]_vars

\* ------------------------------------------- convertTools as a specification
ToolSpecInit ==
    /\ StreamInit
    /\ ConcInit
    /\ ErrInit
    /\ AnthInit
    /\ input \in ToolLists(MaxTools)
    /\ output = Nil
    /\ returned = FALSE

\* One call of convertTools from convertParams; neither returns an error.
CallConvertTools ==
    /\ ~returned
    /\ output' = [tools |-> convertTools(input), err |-> Nil]
    /\ returned' = TRUE
    /\ UNCHANGED input
    /\ UNCHANGED <<streamVars, errVars, anthVars, concVars>>

ToolNext == CallConvertTools

ToolSpec == ToolSpecInit /\ [][ToolNext]_vars

\* --------------------------------------- preprocessParams as a specification
SchemaSpecInit ==
    /\ StreamInit
    /\ ConcInit
    /\ ErrInit
    /\ AnthInit
    /\ input \in {CompletionParams(c, f) :
                    c \in SchemaConversations(MaxMessages), f \in ResponseFormats}
    /\ output = Nil
    /\ returned = FALSE

\* One call of preprocessParams.
CallPreprocessParams ==
    /\ ~returned
    /\ output' = preprocessParams(input)
    /\ returned' = TRUE
    /\ UNCHANGED input
    /\ UNCHANGED <<streamVars, errVars, anthVars, concVars>>

SchemaNext == CallPreprocessParams

SchemaSpec == SchemaSpecInit /\ [][SchemaNext]_vars

\* ---------------------------------------- applyThinking as a specification
ThinkSpecInit ==
    /\ StreamInit
    /\ ConcInit
    /\ ErrInit
    /\ AnthInit
    /\ input \in {[effort |-> e, req |-> [MaxTokens |-> m, Thinking |-> Nil]] :
                    e \in Efforts, m \in MaxTokensValues}
    /\ output = Nil
    /\ returned = FALSE

\* One call of applyThinking(req, effort, req.MaxTokens).
CallApplyThinking ==
    /\ ~returned
    /\ output' = anthropicApplyThinking(input.req, input.effort, input.req.MaxTokens)
    /\ returned' = TRUE
    /\ UNCHANGED input
    /\ UNCHANGED <<streamVars, errVars, anthVars, concVars>>

ThinkNext == CallApplyThinking

ThinkSpec == ThinkSpecInit /\ [][ThinkNext]_vars

\* ------------------------------- the Anthropic stream state as a specification
DeltaSpecInit ==
    /\ StreamInit
    /\ ConcInit
    /\ ErrInit
    /\ ConvInit
    /\ astate \in {AnthropicStarted, AnthropicOutOfBounds}
    /\ alog = <<>>

\* A handler call has run on astate with result r.
Handled(kind, text, r) ==
    /\ astate' = r.state
    /\ alog' = Append(alog, [kind |-> kind, text |-> text, before |-> astate,
                             after |-> r.state, chunk |-> r.chunk, err |-> r.err])
    /\ UNCHANGED <<streamVars, errVars, convVars, concVars>>

\* A tool-call start arrives.
ToolCallStart ==
    /\ Len(alog) < MaxHandlerCalls
    /\ Len(astate.toolCalls) < MaxToolCalls
    /\ \E c \in StartedCalls :
          Handled("start", c[2], anthropicToolCallStart(astate, c[1], c[2]))

\* A tool-call-argument delta arrives.
InputJSONDelta ==
    /\ Len(alog) < MaxHandlerCalls
    /\ \E f \in ArgumentFragments :
          Handled("delta", f, handleInputJSONDelta(astate, f))

DeltaNext == ToolCallStart \/ InputJSONDelta

DeltaSpec == DeltaSpecInit /\ [][DeltaNext]_vars

\* ---------------------------------------- convertResponse as a specification
RespSpecInit ==
    /\ StreamInit
    /\ ConcInit
    /\ ErrInit
    /\ AnthInit
    /\ input \in NativeResponses
    /\ output = Nil
    /\ returned = FALSE

\* One call of convertResponse.
CallConvertResponse ==
    /\ ~returned
    /\ \E gens \in [1..NumCalls(input) -> generateID(idPrefixToolCall)],
          idGen \in generateID(idPrefixCompletion) :
          output' = convertResponse(input, ParamsModel, gens, idGen, UnixNow)
    /\ returned' = TRUE
    /\ UNCHANGED input
    /\ UNCHANGED <<streamVars, errVars, anthVars, concVars>>

RespNext == CallConvertResponse

RespSpec == RespSpecInit /\ [][RespNext]_vars

\* --------------------------------------------- ListModels as a specification
ListSpecInit ==
    /\ StreamInit
    /\ ConcInit
    /\ ErrInit
    /\ AnthInit
    /\ input \in ModelServices
    /\ output = Nil
    /\ returned = FALSE

\* One call of Provider.ListModels.
CallListModels ==
    /\ ~returned
    /\ output' = ListModels(input)
    /\ returned' = TRUE
    /\ UNCHANGED input
    /\ UNCHANGED <<streamVars, errVars, anthVars, concVars>>

ListNext == CallListModels

ListSpec == ListSpecInit /\ [][ListNext]_vars

\* ----------------------------- Mistral preprocessParams as a specification
PatchSpecInit ==
    /\ StreamInit
    /\ ConcInit
    /\ ErrInit
    /\ AnthInit
    /\ input \in MistralInputs
    /\ output = <<>>
    /\ returned = FALSE

\* Provider.Completion preprocesses the caller's params; output collects the
\* result of every application.
CallMistralPreprocessParams ==
    /\ ~returned
    /\ output' = <<mistralPreprocessParams(input)>>
    /\ returned' = TRUE
    /\ UNCHANGED input
    /\ UNCHANGED <<streamVars, errVars, anthVars, concVars>>

\* The preprocessed params are preprocessed again.
CallMistralPreprocessParamsAgain ==
    /\ returned
    /\ Len(output) < MaxPatchCalls
    /\ output' = Append(output, mistralPreprocessParams(output[Len(output)]))
    /\ UNCHANGED <<input, returned>>
    /\ UNCHANGED <<streamVars, errVars, anthVars, concVars>>

PatchNext == CallMistralPreprocessParams \/ CallMistralPreprocessParamsAgain

PatchSpec == PatchSpecInit /\ [][PatchNext]_vars

\* ------------------------------------------ two concurrent streaming calls
\* Each call runs the goroutine of CompletionStream on its own channels and
\* its own state; neither context is cancelled and each consumer ranges over
\* its chunks channel, so a send completes as soon as the producer offers it.

\* The goroutine of call c starts: convertParams, then newStreamState.
ConcStartOf(c) ==
    /\ streams[c].pc = "start"
    /\ \E gen \in generateIDFrom(idPrefixCompletion, ConcHex) :
         streams' =
            IF gen.err # Nil
            THEN [streams EXCEPT ![c].err = gen.err, ![c].pc = "errSelect"]
            ELSE [streams EXCEPT ![c].state = newStreamState(streams[c].model, gen.id),
                                 ![c].id = gen.id,
                                 ![c].pc = "iterate"]

\* processResponse of call c writing one state all calls share.
ConcIterEventSharedStateOf(c) ==
    /\ streams[c].pc = "iterate"
    /\ Len(streams[c].events) < MaxConcEvents
    /\ \E ev \in ConcEvents :
       \E gens \in [1..NumCalls(ev) -> generateID(idPrefixToolCall)] :
         LET r == processResponse(streams["first"].state, ev, gens)
             shared == [streams EXCEPT !["first"].state = r.state] IN
         streams' =
            IF r.err # Nil
            THEN [shared EXCEPT ![c].events = Append(@, ev),
                                ![c].err = r.err, ![c].pc = "errSelect"]
            ELSE [shared EXCEPT ![c].events = Append(@, ev),
                                ![c].responseChunks = r.result,
                                ![c].pc = IF r.result = <<>> THEN "iterate"
                                          ELSE "sendSelect"]

\* The iterator of call c yields a response: processResponse runs on the
\* call's own state.
ConcIterEventOf(c) ==
    /\ streams[c].pc = "iterate"
    /\ Len(streams[c].events) < MaxConcEvents
    /\ \E ev \in ConcEvents :
       \E gens \in [1..NumCalls(ev) -> generateID(idPrefixToolCall)] :
         LET r == processResponse(streams[c].state, ev, gens) IN
         streams' =
            IF r.err # Nil
            THEN [streams EXCEPT ![c].events = Append(@, ev), ![c].state = r.state,
                                 ![c].err = r.err, ![c].pc = "errSelect"]
            ELSE [streams EXCEPT ![c].events = Append(@, ev), ![c].state = r.state,
                                 ![c].responseChunks = r.result,
                                 ![c].pc = IF r.result = <<>> THEN "iterate"
                                           ELSE "sendSelect"]

\* The iterator of call c yields an error.
ConcIterErrorOf(c) ==
    /\ streams[c].pc = "iterate"
    /\ \E e \in ConcErrors :
         streams' = [streams EXCEPT ![c].err = ConvertError(e),
                                    ![c].iterOutcome = "error",
                                    ![c].pc = "errSelect"]

\* The iterator of call c is exhausted.
ConcIterEndOf(c) ==
    /\ streams[c].pc = "iterate"
    /\ streams' = [streams EXCEPT ![c].iterOutcome = "end", ![c].pc = "finalSelect"]

\* select: case chunks <- chunk, on the channel of call c.
ConcSendChunkOf(c) ==
    /\ streams[c].pc = "sendSelect"
    /\ streams' = [streams EXCEPT
                      ![c].received = Append(@, Head(streams[c].responseChunks)),
                      ![c].responseChunks = Tail(@),
                      ![c].pc = IF Tail(streams[c].responseChunks) = <<>>
                                THEN "iterate" ELSE "sendSelect"]

\* select: case errs <- err, on the channel of call c, then return.
ConcErrSendOf(c) ==
    /\ streams[c].pc = "errSelect"
    /\ Len(streams[c].errs) < ErrsCap
    /\ streams' = [streams EXCEPT ![c].errs = Append(@, streams[c].err),
                                  ![c].pc = "return"]

\* select: case chunks <- *finalChunk, on the channel of call c.
ConcFinalSendOf(c) ==
    /\ streams[c].pc = "finalSelect"
    /\ streams' = [streams EXCEPT ![c].received = Append(@, finalChunk(streams[c].state)),
                                  ![c].pc = "return"]

\* The goroutine of call c returns: both deferred closes run.
ConcReturnOf(c) ==
    /\ streams[c].pc = "return"
    /\ streams' = [streams EXCEPT ![c].closed = TRUE, ![c].pc = "done"]

ConcUnchanged == UNCHANGED <<streamVars, errVars, convVars, anthVars>>

ConcStart == (\E c \in Calls : ConcStartOf(c)) /\ ConcUnchanged
ConcIterEventSharedState == (\E c \in Calls : ConcIterEventSharedStateOf(c)) /\ ConcUnchanged
ConcIterEvent == (\E c \in Calls : ConcIterEventOf(c)) /\ ConcUnchanged
ConcIterError == (\E c \in Calls : ConcIterErrorOf(c)) /\ ConcUnchanged
ConcIterEnd == (\E c \in Calls : ConcIterEndOf(c)) /\ ConcUnchanged
ConcSendChunk == (\E c \in Calls : ConcSendChunkOf(c)) /\ ConcUnchanged
ConcErrSend == (\E c \in Calls : ConcErrSendOf(c)) /\ ConcUnchanged
ConcFinalSend == (\E c \in Calls : ConcFinalSendOf(c)) /\ ConcUnchanged
ConcReturn == (\E c \in Calls : ConcReturnOf(c)) /\ ConcUnchanged

ConcNext ==
    \/ ConcStart
    \/ ConcIterEvent
    \/ ConcIterError
    \/ ConcIterEnd
    \/ ConcSendChunk
    \/ ConcErrSend
    \/ ConcFinalSend
    \/ ConcReturn

ConcSpec == Init /\ [][ConcNext]_vars

\* ------------------------------ the finish-reason mapping as a specification
\* A native finish reason of a Gemini candidate and a native stop reason of
\* an Anthropic message, each to be mapped once.
FinishSpecInit ==
    /\ StreamInit
    /\ ConcInit
    /\ ErrInit
    /\ AnthInit
    /\ input \in [gemini : GeminiReasons, anthropic : AnthropicReasons]
    /\ output = [gemini |-> Nil, anthropic |-> Nil]
    /\ returned = FALSE

\* One call of the Gemini convertFinishReason.
CallConvertFinishReason ==
    /\ output.gemini = Nil
    /\ output' = [output EXCEPT !.gemini = Some(convertFinishReason(input.gemini))]
    /\ returned' = (output.anthropic # Nil)
    /\ UNCHANGED input
    /\ UNCHANGED <<streamVars, errVars, anthVars, concVars>>

\* One call of the Anthropic convertStopReason.
CallConvertStopReason ==
    /\ output.anthropic = Nil
    /\ output' = [output EXCEPT !.anthropic = Some(convertStopReason(input.anthropic))]
    /\ returned' = (output.gemini # Nil)
    /\ UNCHANGED input
    /\ UNCHANGED <<streamVars, errVars, anthVars, concVars>>

FinishNext == CallConvertFinishReason \/ CallConvertStopReason

FinishSpec == FinishSpecInit /\ [][FinishNext]_vars

\* ================================================================ claims
\* ------------------------------------------------------- shared vocabulary
IsFinal(c) == c.FinishReason # ""
NotFinal(c) == ~IsFinal(c)
IsPrefix(a, b) == Len(a) <= Len(b) /\ SubSeq(b, 1, Len(a)) = a
Last(q) == q[Len(q)]

\* What a chunk delivers: its kind and payload.
DeltaOf(c) ==
    IF c.Delta.ToolCalls # <<>>
    THEN [kind |-> "tool", text |-> <<>>, name |-> c.Delta.ToolCalls[1].Function.Name]
    ELSE IF c.Delta.Reasoning # Nil
    THEN [kind |-> "reasoning", text |-> Get(c.Delta.Reasoning), name |-> ""]
    ELSE [kind |-> "content", text |-> c.Delta.Content, name |-> ""]
DeltasOf(cs) == [i \in 1..Len(cs) |-> DeltaOf(cs[i])]

\* What the parts of a native event originate, read off the event itself:
\* a call, a thought, a non-empty text; a part with none of them is silent.
RECURSIVE PartDeltas(_)
PartDeltas(parts) ==
    IF parts = <<>> THEN <<>>
    ELSE LET p == Head(parts)
             d == IF p.FunctionCall # Nil
                  THEN <<[kind |-> "tool", text |-> <<>>, name |-> Get(p.FunctionCall).Name]>>
                  ELSE IF p.Thought
                  THEN <<[kind |-> "reasoning", text |-> p.Text, name |-> ""]>>
                  ELSE IF p.Text # <<>>
                  THEN <<[kind |-> "content", text |-> p.Text, name |-> ""]>>
                  ELSE <<>>
         IN d \o PartDeltas(Tail(parts))
EventDeltas(ev) ==
    IF ev.Candidates = <<>> \/ ev.Candidates[1].Content = Nil THEN <<>>
    ELSE PartDeltas(Get(ev.Candidates[1].Content).Parts)
RECURSIVE ExpectedDeltas(_)
ExpectedDeltas(evs) ==
    IF evs = <<>> THEN <<>> ELSE EventDeltas(Head(evs)) \o ExpectedDeltas(Tail(evs))

\* The texts of a sequence of deltas of one kind, and their concatenation.
IsContentDelta(d) == d.kind = "content"
RECURSIVE Concat(_)
Concat(ds) == IF ds = <<>> THEN <<>> ELSE Head(ds).text \o Concat(Tail(ds))

\* The last finish reason and the last usage metadata among the events.
RECURSIVE LastFinish(_)
LastFinish(evs) ==
    IF evs = <<>> THEN FinishReasonUnset
    ELSE LET ev == Last(evs) IN
         IF ev.Candidates # <<>> /\ ev.Candidates[1].FinishReason # FinishReasonUnset
         THEN ev.Candidates[1].FinishReason
         ELSE LastFinish(SubSeq(evs, 1, Len(evs) - 1))
RECURSIVE LastUsage(_)
LastUsage(evs) ==
    IF evs = <<>> THEN Nil
    ELSE IF Last(evs).UsageMetadata # Nil THEN Last(evs).UsageMetadata
    ELSE LastUsage(SubSeq(evs, 1, Len(evs) - 1))
HasToolCall(evs) == \E i \in 1..Len(ExpectedDeltas(evs)) : ExpectedDeltas(evs)[i].kind = "tool"

\* The producer has left the loop and its selects: it is returning or gone.
Exited == pc \in {"return", "done"}
\* The native stream ended gracefully and nothing was cancelled.
Graceful == iterOutcome = "end" /\ ~cancelled
\* A processResponse call failed (generateID inside it did).
ProcessFailed == iterOutcome = "open" /\ events # <<>> /\ err # Nil
FinalsReceived == Len(SelectSeq(received, IsFinal))

TextEvent(t) == Event(Nil, <<Candidate(FinishReasonUnset, Content(<<TextPart(t)>>))>>)
ThreeTextEvents == <<TextEvent(T4), TextEvent(TOpen), TextEvent(TClose)>>

\* C1: the chunks reach the consumer in the order of their native events
\* and, inside an event, of its parts; none is held back when the producer
\* asks for the next event; a final chunk is the last chunk; and the three
\* text events "4", " (", ")" give these three chunks and then one final
\* chunk with finish reason stop and no tool calls.
C1_ArrivalOrder ==
    /\ IsPrefix(DeltasOf(SelectSeq(received, NotFinal)), ExpectedDeltas(events))
    /\ pc \in {"iterate", "finalSelect"} => DeltasOf(received) = ExpectedDeltas(events)
    /\ pc = "sendSelect" =>
          DeltasOf(received) \o DeltasOf(responseChunks) = ExpectedDeltas(events)
    /\ \A i \in 1..Len(received) : IsFinal(received[i]) => i = Len(received)
    /\ (events = ThreeTextEvents /\ FinalsReceived = 1) =>
          /\ Len(received) = 4
          /\ [i \in 1..3 |-> received[i].Delta.Content] = <<T4, TOpen, TClose>>
          /\ received[4].FinishReason = FinishReasonStop
          /\ \A i \in 1..4 : received[i].Delta.ToolCalls = <<>>

C1_Witness ==
    /\ events = ThreeTextEvents
    /\ pc = "done"
    /\ Len(received) = 4
    /\ IsFinal(received[4])

\* C2: when the iterator is exhausted and nothing is cancelled, the producer
\* does not leave before exactly one final chunk has been received, whatever
\* the events were (none included); the chunk carries a finish reason of the
\* canonical enumeration and the usage of the last usage-bearing event.
C2_OneFinalChunk ==
    /\ FinalsReceived <= 1
    /\ (Exited /\ Graceful) =>
          /\ FinalsReceived = 1
          /\ Last(received).Delta = EmptyDelta
          /\ Last(received).FinishReason \in
                {FinishReasonStop, FinishReasonLength, FinishReasonToolCalls,
                 FinishReasonContentFilter}
          /\ Last(received).Usage =
                (IF LastUsage(events) = Nil THEN Nil ELSE usageOf(Get(LastUsage(events))))

C2_Witness ==
    /\ pc = "done"
    /\ Graceful
    /\ events = <<>>
    /\ Len(received) = 1
    /\ IsFinal(received[1])

\* C3 as stated: with a tool call accumulated and a native finish signal
\* received, the final chunk's finish reason is tool_calls.
C3_AlwaysToolCalls ==
    \A i \in 1..Len(received) :
        (IsFinal(received[i]) /\ HasToolCall(events) /\ LastFinish(events) # FinishReasonUnset)
            => received[i].FinishReason = FinishReasonToolCalls

\* C3 amended: with a tool call accumulated, the final chunk's finish reason
\* is tool_calls when the native finish reason maps to stop (STOP, an
\* unrecognized one, or none at all); a reason that maps to length or to
\* content_filter is reported as such.
C3_ToolCallsReplaceStop ==
    \A i \in 1..Len(received) :
        (IsFinal(received[i]) /\ HasToolCall(events)) =>
            received[i].FinishReason =
                (CASE LastFinish(events) = "MAX_TOKENS" -> FinishReasonLength
                   [] LastFinish(events) \in {"SAFETY", "BLOCKLIST", "PROHIBITED_CONTENT"}
                        -> FinishReasonContentFilter
                   [] OTHER -> FinishReasonToolCalls)

C3_Witness ==
    /\ received # <<>>
    /\ IsFinal(Last(received))
    /\ HasToolCall(events)
    /\ LastFinish(events) = "MAX_TOKENS"
    /\ Last(received).FinishReason = FinishReasonLength

\* C4 as stated: the producer closes the content channel first and the
\* error channel second.
C4_ChunksClosedFirst ==
    /\ errsClosed => chunksClosed
    /\ pc = "done" => closeOrder = <<"chunks", "errs">>

\* C4 amended: when the producer exits it closes both channels, the error
\* channel first and the content channel second.
C4_ErrsClosedFirst ==
    /\ chunksClosed => errsClosed
    /\ pc = "done" => (chunksClosed /\ errsClosed /\ closeOrder = <<"errs", "chunks">>)
    /\ pc # "done" => ~chunksClosed

C4_Witness ==
    /\ pc = "done"
    /\ iterOutcome = "error"
    /\ closeOrder = <<"errs", "chunks">>

\* C5 as stated: no final chunk is delivered in a step taken after the
\* context was cancelled.
C5_NoFinalAfterCancel ==
    [][cancelled => ~(Len(received') > Len(received) /\ IsFinal(Last(received')))]_vars

\* C5 amended: once the context is cancelled the producer does not wait for
\* the consumer: it leaves at a suspension point and closes both channels.
\* (A chunk, the final one included, is still handed to a consumer that is
\* ready at that select.)
C5_CancelLeadsToClose ==
    cancelled ~> (pc = "done" /\ chunksClosed /\ errsClosed)

C5_Witness ==
    /\ cancelled
    /\ pc = "done"
    /\ chunksClosed /\ errsClosed
    /\ cpc = "body"
    /\ iterOutcome = "end"
    /\ FinalsReceived = 0

\* C6: after a native error, with the context not cancelled, the consumer
\* has exactly the chunks of the events before the error and no final chunk,
\* the one value sent on the error channel is ConvertError of the native
\* error, a canonical error, and the producer ends with both channels closed.
C6_ErrorEndsStream ==
    iterOutcome = "error" =>
        /\ DeltasOf(received) = ExpectedDeltas(events)
        /\ FinalsReceived = 0
        /\ responseChunks = <<>>
        /\ (Exited /\ ~cancelled) =>
              /\ errsSent = <<ConvertError(nativeErr)>>
              /\ KindOf(errsSent[1]) # ""
              /\ errsSent[1][1].Provider = providerName
        /\ pc = "done" => (chunksClosed /\ errsClosed)

C6_Witness ==
    /\ iterOutcome = "error"
    /\ ~cancelled
    /\ pc = "done"
    /\ Len(received) = 2
    /\ KindOf(nativeErr) = ""
    /\ Len(errsSent) = 1
    /\ KindOf(errsSent[1]) = "ErrRateLimit"

\* C7: at most one value is ever sent on the error channel, and none when
\* the iterator was exhausted without an error.
C7_AtMostOneError ==
    /\ Len(errsSent) <= 1
    /\ Len(errs) <= ErrsCap
    /\ iterOutcome = "end" => errsSent = <<>>

C7_Witness ==
    /\ pc = "done"
    /\ iterOutcome = "end"
    /\ cancelled
    /\ FinalsReceived = 0
    /\ errsSent = <<>>

C9_RateLimit ==
    (classified /\ errIn # Nil /\ IsAPIError(errIn) /\ AsAPIError(errIn).Code = 429)
        => KindOf(errOut) = "ErrRateLimit"

C9_Witness ==
    /\ classified
    /\ errIn # Nil
    /\ IsAPIError(errIn)
    /\ AsAPIError(errIn).Code = 429
    /\ Contains(ToLower(AsAPIError(errIn).Message), errMsgContext)
    /\ Contains(ToLower(AsAPIError(errIn).Message), errMsgBlock)
    /\ KindOf(errOut) = "ErrRateLimit"

\* C10: ConvertError gives nil for nil, a generic provider error for an
\* error that holds no API error, authentication for 401 and 403,
\* model-not-found for 404, rate-limit for 429, and a generic provider error
\* for every status other than 400, 401, 403, 404 and 429.
C10_StatusMapping ==
    classified =>
        IF errIn = Nil THEN errOut = Nil
        ELSE /\ errOut # Nil
             /\ IF ~IsAPIError(errIn) THEN KindOf(errOut) = "ErrProvider"
                ELSE LET code == AsAPIError(errIn).Code IN
                     /\ code \in {401, 403} => KindOf(errOut) = "ErrAuthentication"
                     /\ code = 404 => KindOf(errOut) = "ErrModelNotFound"
                     /\ code = 429 => KindOf(errOut) = "ErrRateLimit"
                     /\ code \notin {400, 401, 403, 404, 429} => KindOf(errOut) = "ErrProvider"
                     /\ code = 400 => KindOf(errOut) \in
                            {"ErrInvalidRequest", "ErrContextLength", "ErrContentFilter"}

C10_Witness ==
    /\ classified
    /\ errIn # Nil
    /\ IsAPIError(errIn)
    /\ Len(errIn) = 2
    /\ AsAPIError(errIn).Code = 503
    /\ Contains(ToLower(AsAPIError(errIn).Message), errMsgToken)
    /\ KindOf(errOut) = "ErrProvider"

\* A message mentions a word when the word occurs in it, letter case aside.
Mentions(msg, w) ==
    \E i \in 1..(Len(msg) - Len(w) + 1) :
        \A j \in 1..Len(w) : ToLowerChar(msg[i + j - 1]) = w[j]

MentionsContext(msg) == Mentions(msg, errMsgContext) \/ Mentions(msg, errMsgToken)
MentionsFilter(msg) == Mentions(msg, errMsgSafety) \/ Mentions(msg, errMsgBlock)

\* A ConvertError call on an API error with status 400 has returned.
Classified400 ==
    classified /\ errIn # Nil /\ IsAPIError(errIn) /\ AsAPIError(errIn).Code = 400

\* C11 as stated: a 400 is context-length when its message mentions
\* 'context' or 'token', content-filter when it mentions 'safety' or
\* 'block', and invalid-request when it mentions none of the four.
C11_RefinementWithoutPrecedence ==
    Classified400 =>
        LET msg == AsAPIError(errIn).Message IN
        /\ MentionsContext(msg) => KindOf(errOut) = "ErrContextLength"
        /\ MentionsFilter(msg) => KindOf(errOut) = "ErrContentFilter"
        /\ (~MentionsContext(msg) /\ ~MentionsFilter(msg))
              => KindOf(errOut) = "ErrInvalidRequest"

\* C11 amended: a 400 is context-length when its message mentions 'context'
\* or 'token' in any letter case; content-filter when it mentions 'safety'
\* or 'block' and neither 'context' nor 'token'; invalid-request otherwise.
C11_BadRequestRefinement ==
    Classified400 =>
        LET msg == AsAPIError(errIn).Message IN
        KindOf(errOut) = IF MentionsContext(msg) THEN "ErrContextLength"
                         ELSE IF MentionsFilter(msg) THEN "ErrContentFilter"
                         ELSE "ErrInvalidRequest"

C11_Witness ==
    /\ Classified400
    /\ Mentions(AsAPIError(errIn).Message, errMsgToken)
    /\ Mentions(AsAPIError(errIn).Message, errMsgBlock)
    /\ ~Contains(AsAPIError(errIn).Message, errMsgToken)
    /\ KindOf(errOut) = "ErrContextLength"

\* C12: every non-nil error ConvertError returns carries the name of the
\* provider that classified it, whatever its kind.
C12_ProviderNamed ==
    (classified /\ errOut # Nil) => errOut[1].Provider = providerName

C12_Witness ==
    /\ classified
    /\ KindOf(errOut) = "ErrContentFilter"
    /\ errOut[1].Provider = providerName
    /\ Len(errOut) = 3

IsSystem(m) == m.Role = RoleSystem
NotSystem(m) == ~IsSystem(m)

\* The native messages of a list of canonical messages, each converted on
\* its own, in order; a message without a native form contributes nothing.
RECURSIVE EachConverted(_)
EachConverted(ms) ==
    IF ms = <<>> THEN <<>> ELSE convertMessage(Head(ms)) \o EachConverted(Tail(ms))

\* The contents of the system messages, each followed by a newline.
RECURSIVE SystemLines(_)
SystemLines(ms) ==
    IF ms = <<>> THEN ""
    ELSE IF IsSystem(Head(ms)) THEN Head(ms).Content \o "\n" \o SystemLines(Tail(ms))
    ELSE SystemLines(Tail(ms))

\* C13: convertMessages leaves no system message in the native list, which
\* holds the other messages in their order; the system instruction is the
\* contents of the system messages joined by newlines in their order, and is
\* absent when there is none; one system message and one user message give
\* one native message and a system instruction.
C13_SystemExtraction ==
    returned =>
        /\ output.contents = EachConverted(SelectSeq(input, NotSystem))
        /\ (SelectSeq(input, IsSystem) = <<>>) <=> (output.systemInstruction = Nil)
        /\ output.systemInstruction # Nil =>
              /\ Len(Get(output.systemInstruction).Parts) = 1
              /\ Get(output.systemInstruction).Parts[1].value \o "\n" = SystemLines(input)
        /\ (Len(input) = 2 /\ IsSystem(input[1]) /\ input[2].Role = RoleUser) =>
              /\ Len(output.contents) = 1
              /\ output.systemInstruction # Nil

C13_Witness ==
    /\ returned
    /\ input = <<SysFirst, UserHello, SysSecond>>
    /\ Len(output.contents) = 1
    /\ output.contents[1].Role = roleUser
    /\ Get(output.systemInstruction).Parts[1].value = "First part.\nSecond part."

\* The required field of a tool's schema is present and is not a list of
\* strings.
MalformedRequired(tool) ==
    /\ tool.Function.Parameters # Nil
    /\ Get(tool.Function.Parameters).required # Nil
    /\ LET r == Get(Get(tool.Function.Parameters).required) IN
       \/ r.t # "list"
       \/ \E i \in 1..Len(r.items) : r.items[i].t # "string"

\* C14: when the required field of some tool's schema is present and is not
\* a list of strings, building the request fails with an error and yields no
\* native tool list.
C14_MalformedRequiredRejected ==
    (returned /\ \E i \in 1..Len(input) : MalformedRequired(input[i]))
        => (output.err # Nil /\ output.tools = <<>>)

\* The request asks for a JSON schema response.
AsksJSONSchema(p) ==
    p.ResponseFormat # Nil /\ Get(p.ResponseFormat).Type = responseFormatJSONSchema

\* Its schema is there and can be serialized.
SchemaSerializable(p) ==
    /\ Get(p.ResponseFormat).JSONSchema # Nil
    /\ Get(Get(p.ResponseFormat).JSONSchema).Schema.marshal # Nil

UserIndexes(p) == {i \in 1..Len(p.Messages) : p.Messages[i].Role = RoleUser}
LastUser(p) == CHOOSE i \in UserIndexes(p) : \A j \in UserIndexes(p) : j <= i
LastUserIsPlain(p) ==
    UserIndexes(p) # {} /\ p.Messages[LastUser(p)].Parts = <<>>

\* C15: degrading a JSON-schema request returns the request as it was when
\* there is no user message, when the last user message is multimodal, or
\* when the schema cannot be serialized.
C15_FailedInjectionLeavesRequest ==
    (returned /\ AsksJSONSchema(input)
        /\ (~LastUserIsPlain(input) \/ ~SchemaSerializable(input)))
        => output = input

C15_Witness ==
    /\ returned
    /\ AsksJSONSchema(input)
    /\ SchemaSerializable(input)
    /\ input.Messages = <<UserHello, AssistantHi, UserImage>>
    /\ output = input

\* C16 as stated: a JSON-schema request whose last user message is plain
\* text comes back with the response format json_object without a schema and
\* with the schema text and the instruction ahead of that message's text, and
\* with nothing else changed.
C16_DegradationChangesTwoThings ==
    (returned /\ AsksJSONSchema(input) /\ LastUserIsPlain(input)) =>
        LET k == LastUser(input) IN
        /\ Len(output.Messages) = Len(input.Messages)
        /\ output.Messages[k].Content # input.Messages[k].Content
        /\ output = [input EXCEPT
                        !.ResponseFormat = Some(ResponseFormat(responseFormatJSONObject, Nil)),
                        !.Messages[k].Content = output.Messages[k].Content]

\* The content ends with the original text, which the pretty-printed schema
\* and the two lines of the instruction precede.
InjectedContent(new, old, schemaText) ==
    new = "Please respond with a JSON object that matches the following schema:\n\n"
            \o schemaText
            \o "\n\nReturn the JSON object only, no other text, do not wrap it in [fence]json or [fence].\n\n"
            \o old

\* C16 amended: the same, for a request whose schema can be serialized.
C16_SuccessfulDegradation ==
    (returned /\ AsksJSONSchema(input) /\ LastUserIsPlain(input)
        /\ SchemaSerializable(input)) =>
        LET k == LastUser(input) IN
        /\ Len(output.Messages) = Len(input.Messages)
        /\ InjectedContent(output.Messages[k].Content, input.Messages[k].Content,
                           Get(Get(Get(input.ResponseFormat).JSONSchema).Schema.marshal))
        /\ output = [input EXCEPT
                        !.ResponseFormat = Some(ResponseFormat(responseFormatJSONObject, Nil)),
                        !.Messages[k].Content = output.Messages[k].Content]

C16_Witness ==
    /\ returned
    /\ AsksJSONSchema(input)
    /\ SchemaSerializable(input)
    /\ input.Messages = <<UserHello, UserQuestion, AssistantHi>>
    /\ output.Messages[1] = UserHello
    /\ output.Messages[2].Reasoning = Some([Content |-> "thinking..."])
    /\ output.Messages[2].Content # UserQuestion.Content
    /\ Get(output.ResponseFormat).Type = responseFormatJSONObject

\* The budget and the floor C17 gives for an effort.
TierBudget(effort) ==
    CASE effort = "low" -> 1024 [] effort = "medium" -> 4096 [] effort = "high" -> 16384
TierFloor(effort) ==
    CASE effort = "low" -> 2048 [] effort = "medium" -> 8192 [] effort = "high" -> 32768

\* C17: for effort low, medium or high applyThinking sets the budget 1024,
\* 4096 or 16384 and raises max output tokens to the floor 2048, 8192 or
\* 32768 when it is below it, keeping it otherwise; for an empty, 'none' or
\* unrecognized effort it changes neither max output tokens nor thinking.
C17_ThinkingFloor ==
    returned =>
        IF input.effort \in {"low", "medium", "high"}
        THEN /\ output.Thinking = Some([BudgetTokens |-> TierBudget(input.effort)])
             /\ output.MaxTokens =
                    IF input.req.MaxTokens < TierFloor(input.effort)
                    THEN TierFloor(input.effort)
                    ELSE input.req.MaxTokens
        ELSE output = input.req

C17_Witness ==
    /\ returned
    /\ input.effort = "medium"
    /\ input.req.MaxTokens = 8191
    /\ output.MaxTokens = 8192
    /\ output.Thinking = Some([BudgetTokens |-> 4096])

\* A state has a current tool call: its index is one of its tool-call list.
HasCurrentCall(s) == s.currentToolIdx \in 0..(Len(s.toolCalls) - 1)

\* The fragments that arrived while call number i (from 1) was current, in
\* arrival order, joined.
RECURSIVE FragmentsFor(_, _)
FragmentsFor(log, i) ==
    IF log = <<>> THEN ""
    ELSE LET h == Head(log) IN
         (IF h.kind = "delta" /\ HasCurrentCall(h.before) /\ h.before.currentToolIdx = i - 1
          THEN h.text ELSE "")
            \o FragmentsFor(Tail(log), i)

\* The state the first handler call of a log started from.
FirstState == IF alog = <<>> THEN astate ELSE alog[1].before

\* The arguments call number i had before any handler ran.
ArgumentsAtFirst(i) ==
    IF i <= Len(FirstState.toolCalls) THEN FirstState.toolCalls[i].Function.Arguments ELSE ""

\* C18: an argument delta appends to the arguments of the current tool call
\* and emits a chunk with that call; without a current call (index -1 or out
\* of range) it changes nothing, emits no chunk and fails nothing; so the
\* arguments of every call are its fragments joined in arrival order.
C18_ArgumentDeltas ==
    /\ \A n \in 1..Len(alog) :
          alog[n].kind = "delta" =>
             LET b == alog[n].before
                 a == alog[n].after
             IN /\ alog[n].err = Nil
                /\ IF HasCurrentCall(b)
                   THEN LET i == b.currentToolIdx + 1 IN
                        /\ a.toolCalls[i].Function.Arguments
                              = b.toolCalls[i].Function.Arguments \o alog[n].text
                        /\ a = [b EXCEPT !.toolCalls[i].Function.Arguments
                                            = a.toolCalls[i].Function.Arguments]
                        /\ alog[n].chunk # Nil
                        /\ Get(alog[n].chunk).Delta.ToolCalls = <<a.toolCalls[i]>>
                   ELSE a = b /\ alog[n].chunk = Nil
    /\ \A i \in 1..Len(astate.toolCalls) :
          astate.toolCalls[i].Function.Arguments
              = ArgumentsAtFirst(i) \o FragmentsFor(alog, i)

C18_Witness ==
    /\ Len(alog) = 4
    /\ alog[1].kind = "delta" /\ alog[1].before.currentToolIdx = -1 /\ alog[1].chunk = Nil
    /\ alog[2].kind = "start"
    /\ alog[3].kind = "delta" /\ alog[3].chunk # Nil
    /\ alog[4].kind = "delta"
    /\ astate.toolCalls[1].Function.Arguments = "{\"location\":\"Paris\"}"

\* The finish reason a converted response reports.
Reported == Get(output.completion).Choices[1].FinishReason

\* C19: a converted response with at least one tool call whose finish reason
\* maps to stop reports tool_calls; one without a tool call reports the
\* mapped finish reason.
C19_ToolCallsOverrideStop ==
    (returned /\ output.err = Nil /\ Len(input.Candidates) > 0) =>
        LET mapped == convertFinishReason(input.Candidates[1].FinishReason) IN
        /\ (NumCalls(input) > 0 /\ mapped = FinishReasonStop)
              => Reported = FinishReasonToolCalls
        /\ NumCalls(input) = 0 => Reported = mapped

C19_Witness ==
    /\ returned
    /\ output.err = Nil
    /\ input.Candidates # <<>>
    /\ input.Candidates[1].FinishReason = "STOP"
    /\ Len(Get(output.completion).Choices[1].Message.ToolCalls) = 1
    /\ Reported = FinishReasonToolCalls

\* The names on all pages, page after page.
RECURSIVE AllNames(_)
AllNames(pages) == IF pages = <<>> THEN <<>> ELSE Head(pages) \o AllNames(Tail(pages))

\* A fetch the call makes fails: the fetch of one of the pages, or the fetch
\* after the last page when that page still carries a token.
FetchFails(svc) ==
    \/ svc.failAt \in 1..Len(svc.pages)
    \/ svc.failAt = Len(svc.pages) + 1 /\ svc.trailingToken

\* C20: ListModels returns the models of every page, in page order and then
\* in-page order, each once; when a fetch fails with an error other than
\* end-of-pages it returns the classified error and no list.
C20_FollowsPagination ==
    returned =>
        IF FetchFails(input)
        THEN /\ output.response = Nil
             /\ output.err # Nil
             /\ output.err[1].Provider = providerName
             /\ KindOf(output.err) =
                    IF IsAPIError(input.failure) THEN "ErrRateLimit" ELSE "ErrProvider"
             /\ SubSeq(output.err, 2, Len(output.err)) = input.failure
        ELSE /\ output.err = Nil
             /\ LET data == Get(output.response).Data IN
                /\ Len(data) = Len(AllNames(input.pages))
                /\ \A i \in 1..Len(data) : data[i].ID = AllNames(input.pages)[i]

C20_Witness ==
    /\ returned
    /\ Len(input.pages) = 3
    /\ input.trailingToken
    /\ input.failAt = 0
    /\ output.err = Nil
    /\ Len(Get(output.response).Data) = 4

\* The positions of the tool messages that a user message follows.
ToolUserPairs(ms) == {i \in 1..(Len(ms) - 1) : ms[i].Role = RoleTool /\ ms[i + 1].Role = RoleUser}

\* Where the i-th message stands once one message is inserted after every pair.
PatchedPosition(ms, i) == i + Cardinality({j \in ToolUserPairs(ms) : j < i})

\* C21: patchMessages inserts exactly one assistant message 'OK' between every
\* adjacent (tool, user) pair and nowhere else: the output is as long as the
\* input plus the number of pairs, the original messages stand unchanged in
\* their order, and an input with fewer than two messages or without a pair
\* is returned as it is.
C21_PatchInsertsBetweenPairs ==
    returned =>
        LET ms == input.Messages
            out == output[1].Messages IN
        /\ Len(out) = Len(ms) + Cardinality(ToolUserPairs(ms))
        /\ \A i \in 1..Len(ms) : out[PatchedPosition(ms, i)] = ms[i]
        /\ \A i \in ToolUserPairs(ms) : out[PatchedPosition(ms, i) + 1] = OKMessage
        /\ (Len(ms) < 2 \/ ToolUserPairs(ms) = {}) => out = ms

C21_Witness ==
    /\ returned
    /\ Len(input.Messages) = 4
    /\ ToolUserPairs(input.Messages) = {1, 3}
    /\ Len(output[1].Messages) = 6
    /\ output[1].Messages[2] = OKMessage
    /\ output[1].Messages[5] = OKMessage

\* A tool message stands immediately before a user message in ms.
HasToolThenUser(ms) == ToolUserPairs(ms) # {}

\* C30: the output of patchMessages never holds a tool message immediately
\* followed by a user message, and patchMessages is idempotent: applied to
\* its own output it returns that output.
C30_PatchIdempotent ==
    /\ \A k \in 1..Len(output) : ~HasToolThenUser(output[k].Messages)
    /\ Len(output) >= 2 =>
           /\ output[2].Messages = output[1].Messages
           /\ output[2].Messages = patchMessages(patchMessages(input.Messages))

C30_Witness ==
    /\ Len(output) = 2
    /\ HasToolThenUser(input.Messages)
    /\ output[1].Messages # input.Messages
    /\ output[2] = output[1]

\* The usage snapshot a usage metadata stands for, read off the metadata.
SnapshotOf(um) ==
    [PromptTokens |-> um.PromptTokenCount,
     CompletionTokens |-> um.CandidatesTokenCount,
     TotalTokens |-> um.PromptTokenCount + um.CandidatesTokenCount,
     ReasoningTokens |-> um.ThoughtsTokenCount]

\* The snapshot after the events: that of the last usage-bearing one, if any.
SnapshotAfter(evs) ==
    IF LastUsage(evs) = Nil THEN Nil ELSE Some(SnapshotOf(Get(LastUsage(evs))))

UsageBearing(ev) == ev.UsageMetadata # Nil

\* C22: every event with usage metadata overwrites the usage snapshot of the
\* stream state, so the snapshot, and the usage of the final chunk, is that
\* of the last usage-bearing event, never a sum, and is absent when no event
\* carried usage metadata; no other chunk carries usage.
C22_UsageOverwritten ==
    /\ state.usage = SnapshotAfter(events)
    /\ \A i \in 1..Len(received) :
          received[i].Usage =
              (IF IsFinal(received[i]) THEN SnapshotAfter(events) ELSE Nil)
    /\ SelectSeq(events, UsageBearing) = <<>> => state.usage = Nil

C22_Witness ==
    /\ Len(SelectSeq(events, UsageBearing)) >= 2
    /\ events[1].UsageMetadata = U1
    /\ Last(events).UsageMetadata = U2
    /\ received # <<>>
    /\ IsFinal(Last(received))
    /\ Get(Last(received).Usage).TotalTokens = 27

\* The chunks the producer built from the events and kept: those of an event
\* whose processResponse failed are discarded with its result.
Built ==
    IF ProcessFailed THEN Len(ExpectedDeltas(SubSeq(events, 1, Len(events) - 1)))
    ELSE Len(ExpectedDeltas(events))
\* The chunks that left the producer's hands, and those the consumer has.
HandedOff == Built - Len(responseChunks)
Accepted == Len(SelectSeq(received, NotFinal))

\* The producer asks the iterator for the next native event.
RequestsEvent == pc = "iterate" /\ (events' # events \/ iterOutcome' # iterOutcome)

\* C23: a chunk send lasts until the consumer receives the chunk: at no time
\* is more than one chunk handed off and not yet received, and the producer
\* never asks for the next native event before the consumer has accepted
\* every chunk of the events before.
C23_Backpressure ==
    /\ [](HandedOff - Accepted \in {0, 1})
    /\ [][RequestsEvent => (responseChunks = <<>> /\ Accepted = Built)]_vars

C23_Witness ==
    /\ pc = "iterate"
    /\ Len(events) = 2
    /\ Built = 3
    /\ Accepted = 3
    /\ ~cancelled

\* The finish reason the events of one call determine for its final chunk.
FinishAfter(evs) ==
    LET mapped == CASE LastFinish(evs) = "MAX_TOKENS" -> FinishReasonLength
                    [] LastFinish(evs) \in {"SAFETY", "BLOCKLIST", "PROHIBITED_CONTENT"} ->
                           FinishReasonContentFilter
                    [] OTHER -> FinishReasonStop
    IN IF HasToolCall(evs) /\ mapped = FinishReasonStop THEN FinishReasonToolCalls
       ELSE mapped

\* processResponse of call c failed on its last event.
ConcProcessFailed(c) ==
    streams[c].iterOutcome = "open" /\ streams[c].events # <<>> /\ streams[c].err # Nil

\* What call c has delivered is what its own events determine.
OwnChunksOnly(c) ==
    LET s == streams[c]
        plain == SelectSeq(s.received, NotFinal) IN
    /\ IsPrefix(DeltasOf(plain), ExpectedDeltas(s.events))
    /\ (s.pc \in {"iterate", "finalSelect", "return", "done"} /\ ~ConcProcessFailed(c)) =>
          DeltasOf(plain) = ExpectedDeltas(s.events)
    /\ \A i \in 1..Len(s.received) :
          /\ s.received[i].ID = s.id
          /\ s.received[i].Model = CallModel[c]
          /\ IsFinal(s.received[i]) =>
                /\ i = Len(s.received)
                /\ s.received[i].FinishReason = FinishAfter(s.events)
                /\ s.received[i].Usage = SnapshotAfter(s.events)
    /\ (s.pc = "done" /\ s.iterOutcome = "end") =>
          Len(SelectSeq(s.received, IsFinal)) = 1

\* C24: each streaming call owns its stream state: with two calls running
\* concurrently, under every interleaving, the chunks each call delivers, the
\* finish reason and usage of its final chunk included, are those its own
\* native events determine, and every chunk of a call carries the identifier
\* and the model name of that call.
C24_StreamsIndependent == \A c \in Calls : OwnChunksOnly(c)

C24_Witness ==
    /\ \A c \in Calls : streams[c].pc = "done" /\ streams[c].iterOutcome = "end"
    /\ streams["first"].id # streams["second"].id
    /\ streams["first"].events # streams["second"].events
    /\ Len(streams["first"].received) = 3
    /\ Len(streams["second"].received) = 2
    /\ Last(streams["first"].received).FinishReason = FinishReasonToolCalls
    /\ Last(streams["second"].received).FinishReason = FinishReasonLength
    /\ Last(streams["second"].received).Usage # Nil
    /\ Last(streams["first"].received).Usage = Nil

\* A native event that is a finish signal only: a candidate with a finish
\* reason and no content.
FinishSignalOnly(ev) ==
    /\ ev.Candidates # <<>>
    /\ ev.Candidates[1].FinishReason # FinishReasonUnset
    /\ ev.Candidates[1].Content = Nil

\* The producer takes a finish-signal-only event from the iterator.
TakesFinishSignal ==
    /\ pc = "iterate"
    /\ Len(events') = Len(events) + 1
    /\ FinishSignalOnly(Last(events'))

\* C25: a native event that carries only a finish signal records the finish
\* reason on the stream state and emits no chunk; no chunk the producer
\* builds but the final one carries a finish reason, and the final chunk
\* carries the reason the last finish signal maps to (tool_calls in place of
\* stop after a tool call).
C25_FinishSignalSilent ==
    /\ [][TakesFinishSignal =>
             /\ state'.finishReason = Last(events').Candidates[1].FinishReason
             /\ responseChunks' = <<>>
             /\ received' = received
             /\ pc' = "iterate"]_vars
    /\ [](/\ \A i \in 1..Len(responseChunks) : responseChunks[i].FinishReason = ""
          /\ \A i \in 1..Len(received) :
                /\ i < Len(received) => received[i].FinishReason = ""
                /\ received[i].FinishReason # "" =>
                      /\ iterOutcome = "end"
                      /\ received[i].FinishReason = FinishAfter(events))

C25_Witness ==
    /\ Len(events) = 2
    /\ ~FinishSignalOnly(events[1])
    /\ events[2] = Event(Nil, <<Candidate("SAFETY", Nil)>>)
    /\ Len(received) = 2
    /\ received[1].FinishReason = ""
    /\ received[2].FinishReason = FinishReasonContentFilter

\* The canonical enumeration, and what the claim lists for each provider.
CanonicalFinishReasons ==
    {FinishReasonStop, FinishReasonLength, FinishReasonToolCalls, FinishReasonContentFilter}
GeminiListed(r) ==
    IF r \in {"STOP", "RECITATION"} THEN Some(FinishReasonStop)
    ELSE IF r = "MAX_TOKENS" THEN Some(FinishReasonLength)
    ELSE IF r \in {"SAFETY", "BLOCKLIST", "PROHIBITED_CONTENT"} THEN Some(FinishReasonContentFilter)
    ELSE Nil
AnthropicListed(r) ==
    IF r \in {"end_turn", "stop_sequence"} THEN Some(FinishReasonStop)
    ELSE IF r = "max_tokens" THEN Some(FinishReasonLength)
    ELSE IF r = "tool_use" THEN Some(FinishReasonToolCalls)
    ELSE Nil
MapsAsListed(listed, out) ==
    /\ Get(out) \in CanonicalFinishReasons
    /\ out = (IF listed = Nil THEN Some(FinishReasonStop) ELSE listed)

\* C26: the finish-reason mapping gives a value of the canonical enumeration
\* for every native value and stop for every value it does not list: for
\* Gemini STOP and RECITATION give stop, MAX_TOKENS length, SAFETY, BLOCKLIST
\* and PROHIBITED_CONTENT content_filter; for Anthropic end_turn and
\* stop_sequence give stop, max_tokens length, tool_use tool_calls.
C26_FinishReasonMapping ==
    /\ output.gemini # Nil => MapsAsListed(GeminiListed(input.gemini), output.gemini)
    /\ output.anthropic # Nil =>
           MapsAsListed(AnthropicListed(input.anthropic), output.anthropic)

C26_Witness ==
    /\ returned
    /\ input.gemini = "PROHIBITED_CONTENT"
    /\ input.anthropic = "pause_turn"
    /\ output.gemini = Some(FinishReasonContentFilter)
    /\ output.anthropic = Some(FinishReasonStop)

\* The stream failed: the producer came to an error to report.
StreamFailed == err # Nil

\* The consumer of the documented pattern: it ranges over the content channel
\* until it is closed, then receives once from the error channel.
AtErrorReceive == cpc = "recvErr"
ErrorReceived == cpc = "done"

\* C27 as stated: the error receive never blocks and returns the error if
\* the stream failed and nil otherwise.
C27_ReceiveReturnsFailure ==
    /\ chunksClosed => errsClosed
    /\ AtErrorReceive => (errs # <<>> \/ errsClosed)
    /\ ErrorReceived => (cerr = (IF StreamFailed THEN err ELSE Nil))

\* C27: the consumer of the documented pattern never blocks on the error
\* receive: when the content channel is closed the error channel is closed
\* already and still holds the error if one was sent; the receive returns nil
\* when the stream did not fail and the stream's error when it failed and the
\* context is not cancelled; after a cancellation the producer may have
\* abandoned the error send, and the receive then returns nil.
C27_ErrorReceiveNeverBlocks ==
    /\ chunksClosed => errsClosed
    /\ AtErrorReceive => (errsClosed /\ errs = errsSent)
    /\ ErrorReceived =>
          /\ cerr = (IF errsSent = <<>> THEN Nil ELSE errsSent[1])
          /\ ~StreamFailed => cerr = Nil
          /\ (StreamFailed /\ ~cancelled) => cerr = err
          /\ cerr # Nil => cerr = err

C27_Witness ==
    /\ ErrorReceived
    /\ StreamFailed
    /\ ~cancelled
    /\ iterOutcome = "error"
    /\ Len(received) = 1
    /\ cerr = ConvertError(nativeErr)
    /\ KindOf(cerr) = "ErrRateLimit"

\* The producer waits at a chunk hand-off; it is gone with both channels closed.
AtHandOff == pc \in {"sendSelect", "finalSelect"}
ProducerClosed == pc = "done" /\ chunksClosed /\ errsClosed

\* How many chunks the consumer can have received.
ChunkCounts == 0..(2 * MaxEvents + 1)

\* A chunk hand-off is starved: from some time on the producer offers the
\* same chunk, the consumer never receives it and the context is never
\* cancelled. It is the negation of: at every chunk hand-off the consumer
\* eventually receives or the context is eventually cancelled.
HandOffStarved ==
    \E n \in ChunkCounts : <>[](AtHandOff /\ Len(received) = n /\ ~cancelled)

\* C28: the producing task terminates and closes both channels, provided the
\* iterator eventually ends or errors (it does, under the fairness of the
\* producer's own steps) and no chunk hand-off is starved; the send on the
\* error channel never blocks the producer, whether or not the consumer ever
\* reads it.
C28_ProducerTerminates ==
    /\ (<>ProducerClosed) \/ HandOffStarved
    /\ [](pc = "errSelect" => Len(errs) < ErrsCap)
    /\ (pc = "errSelect") ~> ProducerClosed

C28_Witness ==
    /\ ProducerClosed
    /\ ~cancelled
    /\ iterOutcome = "error"
    /\ Len(received) = 2
    /\ Len(errs) = 1
    /\ cpc = "body"
    /\ cerr = Nil

\* A ConvertError call on an error with an API error in its chain has returned.
ClassifiedAPI == classified /\ errIn # Nil /\ IsAPIError(errIn)

\* The bare API error with the status of err and its message in lower case.
LowerCased(e) == <<APILink(AsAPIError(e).Code, ToLower(AsAPIError(e).Message))>>

\* C29: a 400 whose message mentions 'context' or 'token' and also 'safety'
\* or 'block' is context-length-exceeded, never content-filtered; and the
\* kind of an API error depends on its status and its lower-cased message
\* only: it is the kind of the bare error with that status and the message
\* in lower case.
C29_ContextLengthPrecedence ==
    /\ Classified400 =>
          LET msg == AsAPIError(errIn).Message IN
          (MentionsContext(msg) /\ MentionsFilter(msg)) =>
              /\ KindOf(errOut) = "ErrContextLength"
              /\ KindOf(errOut) # "ErrContentFilter"
    /\ ClassifiedAPI =>
          /\ KindOf(errOut) = KindOf(ConvertError(LowerCased(errIn)))
          /\ KindOf(errOut) = KindOf(ConvertError(Wrap(LowerCased(errIn), 1)))

C29_Witness ==
    /\ Classified400
    /\ Len(errIn) = 2
    /\ Mentions(AsAPIError(errIn).Message, errMsgContext)
    /\ Mentions(AsAPIError(errIn).Message, errMsgSafety)
    /\ AsAPIError(errIn).Message # ToLower(AsAPIError(errIn).Message)
    /\ KindOf(errOut) = "ErrContextLength"

====
